---- MODULE Spec2Model ----
(***************************************************************************)
(* A model of the DTLS handshake wrappers (DtlsHandshake, Dtls) and of the *)
(* SRTP session constructor (Srtp) of sipsorcery-media.                    *)
(*                                                                         *)
(* Two endpoints share a lossy datagram channel: "srv" runs the responder  *)
(* (DtlsHandshake::DoHandshakeAsServer or Dtls::DoHandshake, chosen in     *)
(* Init) and "cli" runs DtlsHandshake::DoHandshakeAsClient.  The OpenSSL   *)
(* calls the wrappers make are modelled by their outcome at the call site: *)
(* every setup call can succeed or fail, SSL_accept, SSL_connect and       *)
(* DTLSv1_listen are the DTLS flights (ClientHello, HelloVerifyRequest,    *)
(* ServerHello, the two Finished flights) with timer retransmission.       *)
(***************************************************************************)
EXTENDS Integers, Sequences, FiniteSets, TLC

VARIABLES
  impl,       \* the class the responder object is an instance of
  pc,         \* per endpoint: where its handshake call stands
  step,       \* per endpoint: index of the next setup call
  ctx,        \* per endpoint: _k->ctx  (Null or "live")
  ssl,        \* per endpoint: _k->ssl  (Null or "live")
  bio,        \* per endpoint: _k->bio  (Null or "live")
  ret,        \* per endpoint: value the handshake call returned (None before)
  failed,     \* per endpoint: the calls of this attempt that reported failure
  hs,         \* per endpoint: state of the SSL connection's handshake
  sockErr,    \* per endpoint: the socket reported an error
  ev,         \* the last datagram the responder's engine read, and what it wrote in answer
  toSrv,      \* datagrams in flight to the responder
  toCli,      \* datagrams in flight to the initiator
  srtp,       \* per endpoint: the Srtp object constructed from its handshake object
  ck,         \* cookie callbacks: the candidate under test and the last results
  sess,       \* per Srtp object of the packet path: its constructor's policy and *_session
  wire,       \* the protected packets that have been sent
  call,       \* the last ProtectRTP / UnprotectRTP / ProtectRTCP / UnprotectRTCP call
  krx,        \* per endpoint: _k  (Null or "live")
  freed,      \* per endpoint: the objects Shutdown has released
  mg,         \* the DtlsManaged object: its _k, the two memory BIOs and its calls
  cert,       \* what the validation of the chain the initiator presents comes to
  so,         \* one Srtp object from its construction to its destruction
  lib,        \* the initialisation flags, the runs of the routines, the threads
  app         \* per endpoint: the datagrams another thread received on its socket, in order

vars == <<impl, pc, step, ctx, ssl, bio, ret, failed, hs, sockErr, ev,
          toSrv, toCli, srtp, ck, sess, wire, call, krx, freed, mg, app, cert, so, lib>>

pktVars == <<sess, wire, call>>

kVars == <<krx, freed>>

extVars == <<mg, app, cert, so, lib>>

hsVars == <<impl, pc, step, ctx, ssl, bio, ret, failed, hs, sockErr, ev,
            toSrv, toCli>>

----------------------------------------------------------------------------
(* Bounds of the model *)

\* timer expiries a flight survives before the handshake gives up
MaxRetrans == 1

\* how many alternative byte values a forged cookie byte is drawn from
MaxForgedDelta == 10

----------------------------------------------------------------------------
(* Program constants *)

HANDSHAKE_ERROR_STATUS == -1

SRTP_AES_KEY_KEY_LEN == 16

SRTP_SALT_LEN == 14

SRTP_ANTI_REPLAY_WINDOW_SIZE == 128

\* DTLS_COOKIE "sipsorcery": the bytes of the literal with its terminating NUL,
\* which sizeof(DTLS_COOKIE) counts
DTLS_COOKIE == <<115, 105, 112, 115, 111, 114, 99, 101, 114, 121, 0>>

Null == "null"

None == "none"

Peers == {"srv", "cli"}

ServerImpls == {"DtlsHandshake", "Dtls"}

----------------------------------------------------------------------------
(* Cookie callbacks *)

\* generate_cookie: *cookie_len = sizeof(DTLS_COOKIE); memcpy; return 1
generate_cookie == [r |-> 1, cookie |-> DTLS_COOKIE, cookie_len |-> Len(DTLS_COOKIE)]

\* verify_cookie: "Accept any cookie."  return 1
verify_cookie(cookie, cookie_len) == 1

----------------------------------------------------------------------------
(* Datagrams of the handshake *)

CRAND == "crand"    \* the random of the initiator's ClientHello

ARAND == "arand"    \* the random of a ClientHello sent from a spoofed source

SRAND == "srand"    \* the random of the responder's ServerHello

Msg(t, cookie, cr, sr) == [t |-> t, cookie |-> cookie, cr |-> cr, sr |-> sr]

NoMsg == Msg("none", <<>>, None, None)

ClientHello(cookie, cr) == Msg("CH", cookie, cr, None)

HelloVerifyRequest(cookie) == Msg("HVR", cookie, None, None)

ServerHello(sr) == Msg("SH", <<>>, None, sr)

\* the initiator's key exchange and Finished: Finished authenticates the
\* transcript, that is both randoms as the sender saw them
ClientFinished(cr, sr) == Msg("CF", <<>>, cr, sr)

ServerFinished(cr, sr) == Msg("SF", <<>>, cr, sr)

\* a cookie of the generated cookie's length whose bytes differ
ForgedCookie == [DTLS_COOKIE EXCEPT ![1] = 120]

ForgedHellos == {ClientHello(ForgedCookie, ARAND)}

----------------------------------------------------------------------------
(* State of one SSL connection's handshake (OpenSSL's, behind SSL* ) *)

NoHs == [st |-> "none", cr |-> None, sr |-> None, cookie |-> <<>>,
         rtx |-> 0, pend |-> NoMsg]

NewHs == [NoHs EXCEPT !.st = "before"]

NoEv == [kind |-> "none", msg |-> NoMsg, from |-> "Idle", sent |-> {}]

----------------------------------------------------------------------------
(* The handshake functions: which function an endpoint's object runs *)

Fn(p) ==
  IF p = "cli" THEN "DoHandshakeAsClient"
  ELSE IF impl = "Dtls" THEN "DoHandshake" ELSE "DoHandshakeAsServer"

\* DtlsHandshake::DoHandshakeAsServer: the setup calls in order
ServerSetup ==
  << "SSL_CTX_new", "SSL_CTX_set_cipher_list", "SSL_CTX_set_tlsext_use_srtp",
     "SSL_CTX_use_certificate_file", "SSL_CTX_use_PrivateKey_file",
     "SSL_CTX_check_private_key", "SSL_new", "BIO_new_dgram" >>

\* DtlsHandshake::DoHandshakeAsClient: the setup calls in order
ClientSetup ==
  << "SSL_CTX_new", "SSL_CTX_set_cipher_list", "SSL_CTX_set_tlsext_use_srtp",
     "SSL_new", "BIO_new_dgram", "BIO_ctrl" >>

\* Dtls::DoHandshake: the setup calls in order
DtlsSetup ==
  << "SSL_CTX_new", "SSL_CTX_set_cipher_list", "SSL_CTX_set_tlsext_use_srtp",
     "SSL_CTX_use_certificate_file", "SSL_CTX_use_PrivateKey_file",
     "SSL_CTX_check_private_key", "SSL_new", "BIO_new_dgram" >>

SetupCalls(fn) ==
  CASE fn = "DoHandshakeAsServer" -> ServerSetup
    [] fn = "DoHandshakeAsClient" -> ClientSetup
    [] fn = "DoHandshake" -> DtlsSetup

\* the calls whose failure the function tests and answers with
\* return HANDSHAKE_ERROR_STATUS; the others carry on
ClientChecked == {c \in {ClientSetup[i] : i \in 1..Len(ClientSetup)} : c # "BIO_ctrl"}

ServerChecked == {ServerSetup[i] : i \in 1..Len(ServerSetup)}

DtlsChecked == {c \in {DtlsSetup[i] : i \in 1..Len(DtlsSetup)} : c # "BIO_new_dgram"}

Checked(fn) ==
  CASE fn = "DoHandshakeAsServer" -> ServerChecked
    [] fn = "DoHandshakeAsClient" -> ClientChecked
    [] fn = "DoHandshake" -> DtlsChecked

\* where the function blocks once its setup is done
AfterSetup(fn) ==
  CASE fn = "DoHandshakeAsServer" -> "accept"
    [] fn = "DoHandshakeAsClient" -> "connect"
    [] fn = "DoHandshake" -> "listen"

\* the state of the handshake engine an endpoint is in
EngineState(p) ==
  CASE pc[p] \in {"idle", "setup"} -> "Idle"
    [] pc[p] = "listen" -> "WaitingForCookieExchange"
    [] pc[p] = "verify" -> "VerifyingCookie"
    [] pc[p] = "accept" -> "Negotiating"
    [] pc[p] = "connect" ->
         IF hs[p].st \in {"before", "wait_sh"} THEN "Connecting" ELSE "Negotiating"
    [] pc[p] = "done" ->
         IF ssl[p] # Null /\ hs[p].st = "ok" THEN "Completed" ELSE "Failed"
    [] pc[p] = "fault" -> "Failed"

----------------------------------------------------------------------------
(* Init *)

NoSrtp == [made |-> FALSE]

NoCk == [cand |-> <<>>, generated |-> FALSE, gen |-> <<>>, verified |-> FALSE, ver |-> 0]

\* no packet function has been called
NoCall == [fn |-> None, ret |-> None]

\* no Srtp object of the packet path exists and nothing was sent
NoPackets ==
  /\ sess = <<>>
  /\ wire = {}
  /\ call = NoCall

\* the constructor of the handshake class: _k = new krx()
\* the threads of the process that construct objects
Threads == {"t1", "t2"}

\* the classes with an _isOpenSSLInitialised flag of their own
OpenSslClasses == {"DtlsHandshake", "Dtls", "DtlsManaged"}

\* the classes with an initialisation flag
Classes == OpenSslClasses \cup {"Srtp"}

\* the library a class initialises
LibraryOf(cls) == IF cls = "Srtp" THEN "libsrtp" ELSE "openssl"

\* a process start: no flag set, no routine run, no thread in a constructor
LibFresh ==
  [flag |-> [cls \in Classes |-> FALSE],
   runs |-> [l \in {"openssl", "libsrtp"} |-> 0],
   th |-> [t \in Threads |-> [at |-> "idle", cls |-> None]]]

\* the application has called the Initialise function of every class, one
\* after the other, before it constructs an object
LibStarted ==
  [LibFresh EXCEPT !.flag = [cls \in Classes |-> TRUE],
                   !.runs = [l \in {"openssl", "libsrtp"} |->
                               IF l = "openssl" THEN Cardinality(OpenSslClasses) ELSE 1]]

\* no Srtp object yet: _session is the null the runtime gives a new object
NoObject ==
  [state |-> "none", ctor |-> None, isClient |-> FALSE, keyLen |-> 0, read |-> None,
   err |-> None, session |-> Null, signal |-> None,
   last |-> [fn |-> None, on |-> None, how |-> None]]

\* DtlsManaged::DtlsManaged: _k = new krx() with every pointer null, no
\* handshake state, nothing in a BIO, and no call made yet
NoManaged ==
  [k |-> "live", ctx |-> Null, ssl |-> Null, in_bio |-> Null, out_bio |-> Null,
   hs |-> NoHs, outb |-> <<>>, complete |-> FALSE, ret |-> 0, written |-> {},
   rd |-> <<>>, sent |-> {}]

NoExt ==
  /\ mg = NoManaged
  /\ app = [p \in Peers |-> <<>>]
  /\ cert = "failing"
  /\ so = NoObject
  /\ lib = LibStarted

NewKrx ==
  /\ krx = [p \in Peers |-> "live"]
  /\ freed = [p \in Peers |-> {}]

HsInit ==
  /\ impl \in ServerImpls
  /\ pc = [p \in Peers |-> "idle"]
  /\ step = [p \in Peers |-> 1]
  /\ ctx = [p \in Peers |-> Null]
  /\ ssl = [p \in Peers |-> Null]
  /\ bio = [p \in Peers |-> Null]
  /\ ret = [p \in Peers |-> 0]
  /\ failed = [p \in Peers |-> {}]
  /\ hs = [p \in Peers |-> NoHs]
  /\ sockErr = [p \in Peers |-> FALSE]
  /\ ev = NoEv
  /\ toSrv = {}
  /\ toCli = {}

Init ==
  /\ HsInit
  /\ srtp = [p \in Peers |-> NoSrtp]
  /\ ck = NoCk
  /\ NoPackets
  /\ NewKrx
  /\ NoExt

----------------------------------------------------------------------------
(* The handshake calls *)

\* the function is entered: int r = 0
StartHandshake(p) ==
  /\ pc[p] = "idle"
  /\ pc' = [pc EXCEPT ![p] = "setup"]
  /\ step' = [step EXCEPT ![p] = 1]
  /\ UNCHANGED <<pktVars, kVars, extVars, srtp, ck, impl, ctx, ssl, bio, ret, failed, hs, sockErr, ev, toSrv, toCli>>

\* one setup call of the function, which succeeds or fails; a failure the
\* function tests makes it return HANDSHAKE_ERROR_STATUS, any other is left
\* behind and the next call is made
SetupStep(p) ==
  /\ pc[p] = "setup"
  /\ \E ok \in BOOLEAN :
       LET fn == Fn(p)
           c == SetupCalls(fn)[step[p]]
           stop == ~ok /\ c \in Checked(fn)
           last == step[p] = Len(SetupCalls(fn))
       IN /\ ctx' = IF c = "SSL_CTX_new"
                    THEN [ctx EXCEPT ![p] = IF ok THEN "live" ELSE Null] ELSE ctx
          /\ ssl' = IF c = "SSL_new"
                    THEN [ssl EXCEPT ![p] = IF ok THEN "live" ELSE Null] ELSE ssl
          /\ hs' = IF c = "SSL_new" /\ ok THEN [hs EXCEPT ![p] = NewHs] ELSE hs
          /\ bio' = IF c = "BIO_new_dgram"
                    THEN [bio EXCEPT ![p] = IF ok THEN "live" ELSE Null] ELSE bio
          /\ failed' = IF ok THEN failed ELSE [failed EXCEPT ![p] = @ \cup {c}]
          /\ IF stop
             THEN /\ pc' = [pc EXCEPT ![p] = "done"]
                  /\ ret' = [ret EXCEPT ![p] = HANDSHAKE_ERROR_STATUS]
                  /\ step' = step
             ELSE /\ pc' = [pc EXCEPT ![p] = IF last THEN AfterSetup(fn) ELSE "setup"]
                  /\ ret' = ret
                  /\ step' = [step EXCEPT ![p] = IF last THEN @ ELSE @ + 1]
  /\ UNCHANGED <<pktVars, kVars, extVars, srtp, ck, impl, sockErr, ev, toSrv, toCli>>

\* the engine can read its socket
CanRead(p) == bio[p] # Null /\ ~sockErr[p]

Inbox(p) == IF p = "srv" THEN toSrv ELSE toCli

\* a receive that looks at the datagram and leaves it on the socket
IoPeek(p, m, out) ==
  /\ toSrv' = IF p = "srv" THEN toSrv ELSE toSrv \cup out
  /\ toCli' = IF p = "cli" THEN toCli ELSE toCli \cup out

\* the engine of p took m off its socket and wrote the datagrams out
Io(p, m, out) ==
  /\ toSrv' = IF p = "srv" THEN toSrv \ {m} ELSE toSrv \cup out
  /\ toCli' = IF p = "cli" THEN toCli \ {m} ELSE toCli \cup out

\* the blocking call returned r
Returned(p, r) ==
  /\ pc' = [pc EXCEPT ![p] = "done"]
  /\ ret' = [ret EXCEPT ![p] = r]

\* Dtls::DoHandshake in DTLSv1_listen: a ClientHello without a cookie is
\* answered with a HelloVerifyRequest carrying generate_cookie's cookie, one
\* with a cookie goes to verify_cookie, anything else is dropped
ListenRecv ==
  /\ pc["srv"] = "listen"
  /\ CanRead("srv")
  /\ \E m \in toSrv :
       LET hello == m.t = "CH"
           out == IF hello /\ m.cookie = <<>>
                  THEN {HelloVerifyRequest(generate_cookie.cookie)} ELSE {}
       IN /\ Io("srv", m, out)
          /\ ev' = [kind |-> "rx", msg |-> m, from |-> EngineState("srv"), sent |-> out]
          /\ IF hello /\ m.cookie # <<>>
             THEN /\ pc' = [pc EXCEPT !["srv"] = "verify"]
                  /\ hs' = [hs EXCEPT !["srv"].pend = m]
             ELSE UNCHANGED <<pc, hs>>
  /\ UNCHANGED <<pktVars, kVars, extVars, srtp, ck, impl, step, ctx, ssl, bio, ret, failed, sockErr>>

\* the verify_cookie callback decides: on 1 DTLSv1_listen returns and
\* SSL_accept answers the ClientHello with the ServerHello flight, on 0 a
\* fresh HelloVerifyRequest goes out and the listen goes on
VerifyCookie ==
  /\ pc["srv"] = "verify"
  /\ LET m == hs["srv"].pend
         v == verify_cookie(m.cookie, Len(m.cookie))
         out == IF v = 1 THEN {ServerHello(SRAND)}
                ELSE {HelloVerifyRequest(generate_cookie.cookie)}
     IN /\ toCli' = toCli \cup out
        /\ ev' = [kind |-> "verify", msg |-> m, from |-> EngineState("srv"), sent |-> out]
        /\ pc' = [pc EXCEPT !["srv"] = IF v = 1 THEN "accept" ELSE "listen"]
        /\ hs' = [hs EXCEPT !["srv"] =
                    IF v = 1 THEN [@ EXCEPT !.st = "wait_cf", !.cr = m.cr, !.sr = SRAND,
                                           !.cookie = m.cookie, !.pend = NoMsg]
                    ELSE [@ EXCEPT !.pend = NoMsg]]
  /\ UNCHANGED <<pktVars, kVars, extVars, srtp, ck, impl, step, ctx, ssl, bio, ret, failed, sockErr, toSrv>>

\* the responder in SSL_accept: the first ClientHello is answered with the
\* ServerHello flight (no cookie is asked for), the initiator's Finished is
\* checked against the transcript and answered with the responder's
AcceptRecv ==
  /\ pc["srv"] = "accept"
  /\ CanRead("srv")
  /\ \E m \in toSrv :
       LET h == hs["srv"]
           first == h.st = "before" /\ m.t = "CH"
           fin == h.st = "wait_cf" /\ m.t = "CF"
           good == fin /\ m.cr = h.cr /\ m.sr = h.sr
           out == IF first THEN {ServerHello(SRAND)}
                  ELSE IF good THEN {ServerFinished(h.cr, h.sr)} ELSE {}
       IN /\ Io("srv", m, out)
          /\ ev' = [kind |-> "rx", msg |-> m, from |-> EngineState("srv"), sent |-> out]
          /\ hs' = [hs EXCEPT !["srv"] =
                      IF first THEN [@ EXCEPT !.st = "wait_cf", !.cr = m.cr, !.sr = SRAND,
                                             !.cookie = m.cookie]
                      ELSE IF good THEN [@ EXCEPT !.st = "ok"]
                      ELSE IF fin THEN [@ EXCEPT !.st = "err"]
                      ELSE @]
          /\ IF good THEN Returned("srv", 0) /\ failed' = failed
             ELSE IF fin
             THEN Returned("srv", HANDSHAKE_ERROR_STATUS)
                  /\ failed' = [failed EXCEPT !["srv"] = @ \cup {"SSL_accept"}]
             ELSE UNCHANGED <<pc, ret, failed>>
  /\ UNCHANGED <<pktVars, kVars, extVars, srtp, ck, impl, step, ctx, ssl, bio, sockErr>>

\* the initiator enters SSL_connect: the first ClientHello goes out
ConnectStart ==
  /\ pc["cli"] = "connect"
  /\ hs["cli"].st = "before"
  /\ bio["cli"] # Null
  /\ hs' = [hs EXCEPT !["cli"] = [@ EXCEPT !.st = "wait_sh", !.cr = CRAND]]
  /\ toSrv' = toSrv \cup {ClientHello(<<>>, CRAND)}
  /\ UNCHANGED <<pktVars, kVars, extVars, srtp, ck, impl, pc, step, ctx, ssl, bio, ret, failed, sockErr, ev, toCli>>

\* the initiator in SSL_connect: a HelloVerifyRequest is answered with the
\* ClientHello carrying its cookie, the ServerHello flight with the key
\* exchange and Finished, and the responder's Finished is checked
ConnectRecv ==
  /\ pc["cli"] = "connect"
  /\ hs["cli"].st \in {"wait_sh", "wait_sf"}
  /\ CanRead("cli")
  /\ \E m \in toCli :
       LET h == hs["cli"]
           hvr == h.st = "wait_sh" /\ m.t = "HVR"
           sh == h.st = "wait_sh" /\ m.t = "SH"
           fin == h.st = "wait_sf" /\ m.t = "SF"
           good == fin /\ m.cr = h.cr /\ m.sr = h.sr
           out == IF hvr THEN {ClientHello(m.cookie, h.cr)}
                  ELSE IF sh THEN {ClientFinished(h.cr, m.sr)} ELSE {}
       IN /\ Io("cli", m, out)
          /\ hs' = [hs EXCEPT !["cli"] =
                      IF hvr THEN [@ EXCEPT !.cookie = m.cookie, !.rtx = 0]
                      ELSE IF sh THEN [@ EXCEPT !.st = "wait_sf", !.sr = m.sr, !.rtx = 0]
                      ELSE IF good THEN [@ EXCEPT !.st = "ok"]
                      ELSE IF fin THEN [@ EXCEPT !.st = "err"]
                      ELSE @]
          /\ IF good THEN Returned("cli", 0) /\ failed' = failed
             ELSE IF fin
             THEN Returned("cli", HANDSHAKE_ERROR_STATUS)
                  /\ failed' = [failed EXCEPT !["cli"] = @ \cup {"SSL_connect"}]
             ELSE UNCHANGED <<pc, ret, failed>>
  /\ UNCHANGED <<pktVars, kVars, extVars, srtp, ck, impl, step, ctx, ssl, bio, sockErr, ev>>

\* the flight an endpoint last sent and has no answer to
LastFlight(p) ==
  LET h == hs[p]
  IN CASE h.st = "wait_cf" -> {ServerHello(h.sr)}
       [] h.st = "wait_sh" -> {ClientHello(h.cookie, h.cr)}
       [] h.st = "wait_sf" -> {ClientFinished(h.cr, h.sr)}
       [] OTHER -> {}

\* the name of the blocking call an endpoint is in
BlockingCall(p) ==
  CASE pc[p] \in {"listen", "verify"} -> "DTLSv1_listen"
    [] pc[p] = "accept" -> "SSL_accept"
    [] pc[p] = "connect" -> "SSL_connect"
    [] OTHER -> None

\* the retransmission timer fires inside SSL_accept or SSL_connect: the last
\* flight is sent again, and after MaxRetrans expiries the call fails
Timeout(p) ==
  /\ pc[p] \in {"accept", "connect"}
  /\ hs[p].st \in {"wait_cf", "wait_sh", "wait_sf"}
  /\ CanRead(p)
  /\ IF hs[p].rtx < MaxRetrans
     THEN /\ hs' = [hs EXCEPT ![p].rtx = @ + 1]
          /\ toSrv' = IF p = "cli" THEN toSrv \cup LastFlight(p) ELSE toSrv
          /\ toCli' = IF p = "srv" THEN toCli \cup LastFlight(p) ELSE toCli
          /\ UNCHANGED <<pc, ret, failed>>
     ELSE /\ hs' = [hs EXCEPT ![p].st = "err"]
          /\ Returned(p, HANDSHAKE_ERROR_STATUS)
          /\ failed' = [failed EXCEPT ![p] = @ \cup {BlockingCall(p)}]
          /\ UNCHANGED <<toSrv, toCli>>
  /\ UNCHANGED <<pktVars, kVars, extVars, srtp, ck, impl, step, ctx, ssl, bio, sockErr, ev>>

\* the socket (or the missing BIO) fails the blocking call.  SSL_accept and
\* SSL_connect return <= 0 and the function returns HANDSHAKE_ERROR_STATUS;
\* the result of DTLSv1_listen is not looked at and SSL_accept is called next
TransportError(p) ==
  /\ pc[p] \in {"listen", "accept", "connect"}
  /\ sockErr' = [sockErr EXCEPT ![p] = TRUE]
  /\ failed' = [failed EXCEPT ![p] = @ \cup {BlockingCall(p)}]
  /\ IF pc[p] = "listen"
     THEN /\ pc' = [pc EXCEPT ![p] = "accept"]
          /\ UNCHANGED <<ret, hs>>
     ELSE /\ Returned(p, HANDSHAKE_ERROR_STATUS)
          /\ hs' = [hs EXCEPT ![p].st = "err"]
  /\ UNCHANGED <<pktVars, kVars, extVars, srtp, ck, impl, step, ctx, ssl, bio, ev, toSrv, toCli>>

----------------------------------------------------------------------------
(* The network *)

\* a datagram is lost
Drop ==
  /\ \/ \E m \in toSrv : toSrv' = toSrv \ {m} /\ toCli' = toCli
     \/ \E m \in toCli : toCli' = toCli \ {m} /\ toSrv' = toSrv
  /\ UNCHANGED <<pktVars, kVars, extVars, srtp, ck, impl, pc, step, ctx, ssl, bio, ret, failed, hs, sockErr, ev>>

\* a ClientHello from a spoofed source reaches the responder's socket
Forge ==
  /\ \E m \in ForgedHellos : m \notin toSrv /\ toSrv' = toSrv \cup {m}
  /\ UNCHANGED <<pktVars, kVars, extVars, srtp, ck, impl, pc, step, ctx, ssl, bio, ret, failed, hs, sockErr, ev, toCli>>

----------------------------------------------------------------------------
(* Srtp::Srtp(Dtls^ dtlsContext, bool isClient) *)

\* GetSSL: _k->ssl
GetSSL(p) == IF krx[p] # Null THEN ssl[p] ELSE Null

\* sizeof(dtls_buffer)
DtlsBufferLen == SRTP_AES_KEY_KEY_LEN * 2 + SRTP_SALT_LEN * 2

\* sizeof(client_write_key), sizeof(server_write_key)
WriteKeyLen == SRTP_AES_KEY_KEY_LEN + SRTP_SALT_LEN

\* the label of the export
ExportLabel == "EXTRACTOR-dtls_srtp"

\* a local array before anything is copied into it
Uninit(n) == [j \in 1..n |-> "uninit"]

\* memcpy(&dst[dOff], &src[sOff], n) on arrays held as sequences
Memcpy(dst, dOff, src, sOff, n) ==
  [j \in 1..Len(dst) |->
     IF j - 1 >= dOff /\ j - 1 < dOff + n THEN src[sOff + (j - 1 - dOff) + 1] ELSE dst[j]]

\* the bytes SSL_export_keying_material writes: byte i of the export of length
\* n under a label is named by its offset; which secret it comes from is the
\* object's "blk"
ExportedBytes(n) == [j \in 1..n |-> j - 1]

\* what SSL_export_keying_material can answer for the connection of p:
\* on a finished handshake 1 and the block of the session's master secret
\* (both randoms of the transcript); on an unfinished or failed one either
\* a failure or 1 with a block that is not the session's
ExportOutcomes(p) ==
  IF hs[p].st = "ok"
  THEN {[res |-> 1, blk |-> <<hs[p].cr, hs[p].sr, ExportLabel, "final">>]}
  ELSE {[res |-> 0, blk |-> None],
        [res |-> 1, blk |-> <<hs[p].cr, hs[p].sr, ExportLabel, p>>]}

\* a slicing in the order client key, client salt, server key, server salt
SliceKeysInterleaved(buf) ==
  LET c1 == Memcpy(Uninit(WriteKeyLen), 0, buf, 0, WriteKeyLen)
      s1 == Memcpy(Uninit(WriteKeyLen), 0, buf, WriteKeyLen, WriteKeyLen)
  IN [client_write_key |-> c1, server_write_key |-> s1]

\* lines 78-84: the four copies out of dtls_buffer, offset advancing
SliceKeys(buf) ==
  LET o0 == 0
      c1 == Memcpy(Uninit(WriteKeyLen), 0, buf, o0, SRTP_AES_KEY_KEY_LEN)
      o1 == o0 + SRTP_AES_KEY_KEY_LEN
      s1 == Memcpy(Uninit(WriteKeyLen), 0, buf, o1, SRTP_AES_KEY_KEY_LEN)
      o2 == o1 + SRTP_AES_KEY_KEY_LEN
      c2 == Memcpy(c1, SRTP_AES_KEY_KEY_LEN, buf, o2, SRTP_SALT_LEN)
      o3 == o2 + SRTP_SALT_LEN
      s2 == Memcpy(s1, SRTP_AES_KEY_KEY_LEN, buf, o3, SRTP_SALT_LEN)
  IN [client_write_key |-> c2, server_write_key |-> s2]

\* a constructor that, called with isClient false, copies the client slices
\* into server_write_key and the server slices into client_write_key
SrtpCtorSwapped(isClient, at, e, created) ==
  LET k == SliceKeys(ExportedBytes(DtlsBufferLen))
  IN [made |-> TRUE, isClient |-> isClient, at |-> at, res |-> e.res,
      blk |-> IF e.res = 1 THEN e.blk ELSE None, len |-> DtlsBufferLen,
      client_write_key |-> IF e.res # 1 THEN <<>>
                           ELSE IF isClient THEN k.client_write_key ELSE k.server_write_key,
      server_write_key |-> IF e.res # 1 THEN <<>>
                           ELSE IF isClient THEN k.server_write_key ELSE k.client_write_key,
      key |-> IF e.res # 1 THEN None
              ELSE IF isClient THEN "client_write_key" ELSE "server_write_key",
      dir |-> IF e.res # 1 THEN None
              ELSE IF isClient THEN "ssrc_any_inbound" ELSE "ssrc_any_outbound",
      window_size |-> SRTP_ANTI_REPLAY_WINDOW_SIZE, allow_repeat_tx |-> 0,
      session |-> IF e.res # 1 THEN Null ELSE IF created THEN "created" ELSE "invalid",
      signal |-> None]

\* the object the constructor leaves behind, given the export's answer e
\* and srtp_create's (created: err == srtp_err_status_ok)
SrtpCtor(isClient, at, e, created) ==
  IF e.res # 1
  THEN [made |-> TRUE, isClient |-> isClient, at |-> at, res |-> e.res, blk |-> None, len |-> DtlsBufferLen,
        client_write_key |-> <<>>, server_write_key |-> <<>>,
        key |-> None, dir |-> None, session |-> Null, signal |-> None]
  ELSE LET k == SliceKeys(ExportedBytes(DtlsBufferLen))
       IN [made |-> TRUE, isClient |-> isClient, at |-> at, res |-> e.res, blk |-> e.blk, len |-> DtlsBufferLen,
           client_write_key |-> k.client_write_key,
           server_write_key |-> k.server_write_key,
           key |-> IF isClient THEN "client_write_key" ELSE "server_write_key",
           dir |-> IF isClient THEN "ssrc_any_inbound" ELSE "ssrc_any_outbound",
           window_size |-> SRTP_ANTI_REPLAY_WINDOW_SIZE, allow_repeat_tx |-> 0,
           session |-> IF created THEN "created" ELSE "invalid",
           signal |-> None]

\* the constructor called with no connection (GetSSL returned nullptr): the
\* OpenSSL calls read through the null pointer, and the call ends in a fault
\* that either reaches the caller as an exception or ends the process
SrtpCtorNull(isClient, at, how) ==
  [made |-> TRUE, isClient |-> isClient, at |-> at, res |-> 0, blk |-> None, len |-> DtlsBufferLen,
   client_write_key |-> <<>>, server_write_key |-> <<>>,
   key |-> None, dir |-> None, session |-> Null, signal |-> how]

\* The constructor runs on the thread that owns the handshake object, so
\* before that thread entered the handshake call or after the call returned.
NewSrtp(p, isClient) ==
  /\ ~srtp[p].made
  /\ pc[p] \in {"idle", "done"}
  /\ IF GetSSL(p) = Null
     THEN \E how \in {"exception", "abort"} :
            srtp' = [srtp EXCEPT ![p] =
                       SrtpCtorNull(isClient, EngineState(p), how)]
     ELSE \E e \in ExportOutcomes(p), created \in BOOLEAN :
            /\ e.res = 1 \/ created
            /\ srtp' = [srtp EXCEPT ![p] =
                          SrtpCtor(isClient, EngineState(p), e, created)]
  /\ UNCHANGED <<hsVars, ck, pktVars, kVars, extVars>>

----------------------------------------------------------------------------
Next ==
  \/ \E p \in Peers : StartHandshake(p)
  \/ \E p \in Peers : SetupStep(p)
  \/ ListenRecv
  \/ VerifyCookie
  \/ AcceptRecv
  \/ ConnectStart
  \/ ConnectRecv
  \/ \E p \in Peers : Timeout(p)
  \/ \E p \in Peers : TransportError(p)
  \/ Drop
  \/ Forge

Spec == Init /\ [][Next]_vars

\* The handshake pair with the Srtp constructor: the environment loses
\* datagrams and lets timers expire, no setup call fails in a way that ends
\* the call and the sockets report no error; an endpoint constructs its Srtp
\* object after its handshake call, or without ever making one
SrtpNext ==
  \/ \E p \in Peers : StartHandshake(p) /\ ~srtp[p].made
  \/ \E p \in Peers : SetupStep(p) /\ pc'[p] # "done"
  \/ ListenRecv
  \/ VerifyCookie
  \/ AcceptRecv
  \/ ConnectStart
  \/ ConnectRecv
  \/ \E p \in Peers : Timeout(p)
  \/ Drop
  \/ Forge
  \/ \E p \in Peers, isClient \in BOOLEAN : NewSrtp(p, isClient)

SrtpSpec == Init /\ [][SrtpNext]_vars

----------------------------------------------------------------------------
(* The cookie callbacks on their own: a candidate cookie is drawn, and the *)
(* responder's two callbacks are applied to it                             *)

\* DTLS_COOKIE with byte i changed by d
Forged(i, d) == [DTLS_COOKIE EXCEPT ![i] = (@ + d) % 256]

Candidates ==
  {DTLS_COOKIE} \cup {Forged(i, d) : i \in 1..Len(DTLS_COOKIE), d \in 1..MaxForgedDelta}

CookieInit ==
  /\ HsInit
  /\ srtp = [p \in Peers |-> NoSrtp]
  /\ ck \in {[NoCk EXCEPT !.cand = c] : c \in Candidates}
  /\ NoPackets
  /\ NewKrx
  /\ NoExt

\* the responder calls generate_cookie for a HelloVerifyRequest
GenerateCookie ==
  /\ ~ck.generated
  /\ ck' = [ck EXCEPT !.generated = generate_cookie.r = 1, !.gen = generate_cookie.cookie]
  /\ UNCHANGED <<hsVars, srtp, pktVars, kVars, extVars>>

\* the responder calls verify_cookie on the cookie of a ClientHello
VerifyCandidate ==
  /\ ~ck.verified
  /\ ck' = [ck EXCEPT !.verified = TRUE, !.ver = verify_cookie(ck.cand, Len(ck.cand))]
  /\ UNCHANGED <<hsVars, srtp, pktVars, kVars, extVars>>

CookieNext ==
  \/ GenerateCookie
  \/ VerifyCandidate

CookieSpec == CookieInit /\ [][CookieNext]_vars

----------------------------------------------------------------------------
(* IsHandshakeComplete *)

\* ssl->in_handshake (OpenSSL 1.0): counts the handshake functions the
\* connection is inside of; it is 0 from SSL_new on and again whenever
\* SSL_accept, SSL_connect or DTLSv1_listen has returned
in_handshake(p) ==
  IF pc[p] \in {"listen", "verify", "accept", "connect"} THEN 1 ELSE 0

\* SSL_get_state(ssl) == TLS_ST_OK
TlsStOk(p) == hs[p].st = "ok"

Answer(b) == IF b THEN "true" ELSE "false"

\* what IsHandshakeComplete can return on the object of p.  With _k->ssl
\* null both classes read through a null pointer: any answer, or a fault
IsHandshakeComplete(p) ==
  IF ssl[p] = Null THEN {"true", "false", "fault"}
  ELSE IF p = "srv" /\ impl = "Dtls" THEN {Answer(in_handshake(p) = 0)}
  ELSE {Answer(TlsStOk(p))}

----------------------------------------------------------------------------
(* Claims *)

Bytes(o, key) == [j \in 1..Len(key) |-> <<o.blk, key[j]>>]

Exported(o) == o.made /\ o.signal = None /\ o.res = 1

FromCompleted(o) == Exported(o) /\ o.at = "Completed"

\* C1: when the handshakes of the initiator and of the responder both
\* reached Completed over the lossy channel, the client-write key and salt
\* exported on the initiator equal those exported on the responder, and so
\* do the server-write key and salt.
C1_KeyAgreement ==
  FromCompleted(srtp["cli"]) /\ FromCompleted(srtp["srv"]) =>
    /\ Bytes(srtp["cli"], srtp["cli"].client_write_key)
         = Bytes(srtp["srv"], srtp["srv"].client_write_key)
    /\ Bytes(srtp["cli"], srtp["cli"].server_write_key)
         = Bytes(srtp["srv"], srtp["srv"].server_write_key)

C1_Witness ==
  /\ FromCompleted(srtp["cli"]) /\ FromCompleted(srtp["srv"])
  /\ hs["cli"].rtx > 0
  /\ srtp["cli"].isClient # srtp["srv"].isClient

\* the key and salt that back an object's libsrtp session
PolicyKey(o) ==
  IF o.key = "client_write_key" THEN Bytes(o, o.client_write_key)
  ELSE Bytes(o, o.server_write_key)

IsSend(o) == FromCompleted(o) /\ o.dir = "ssrc_any_outbound"

IsRecv(o) == FromCompleted(o) /\ o.dir = "ssrc_any_inbound"

\* C2: for one completed handshake the media sessions of the two peers are
\* mirror images whichever role the local endpoint has: the DTLS client's
\* send context is keyed with the client-write pair, which is the pair of
\* the DTLS server's receive context, and the DTLS server's send context is
\* keyed with the server-write pair, which is the pair of the DTLS client's
\* receive context.
C2_MirrorImages ==
  LET c == srtp["cli"]
      v == srtp["srv"]
  IN /\ IsSend(c) => c.key = "client_write_key"
     /\ IsRecv(c) => c.key = "server_write_key"
     /\ IsSend(v) => v.key = "server_write_key"
     /\ IsRecv(v) => v.key = "client_write_key"
     /\ IsSend(c) /\ IsRecv(v) => PolicyKey(c) = PolicyKey(v)
     /\ IsSend(v) /\ IsRecv(c) => PolicyKey(v) = PolicyKey(c)

\* the responder has read a ClientHello carrying the cookie it generates
CookieRoundTrip == hs["srv"].cookie = generate_cookie.cookie

\* C3: the responder holds an SSL connection object only if a valid cookie
\* round trip has occurred, and without one it never reaches Completed.
C3_NoSessionBeforeCookie ==
  /\ ssl["srv"] # Null => CookieRoundTrip
  /\ EngineState("srv") = "Completed" => CookieRoundTrip

\* C4: verify_cookie accepts the cookie generate_cookie produces and rejects,
\* with a false result, every candidate of that length whose bytes differ.
C4_VerifyMatchesGenerated ==
  ck.verified =>
    /\ ck.ver \in {0, 1}
    /\ ck.ver = 1 <=> ck.cand = generate_cookie.cookie

CookieStates == {"WaitingForCookieExchange", "VerifyingCookie"}

\* C5: a ClientHello with no cookie or with an invalid one, read while the
\* responder waits for the cookie exchange, is answered with a fresh cookie
\* challenge and leaves the responder waiting: it does not reach Negotiating
\* and nothing of the datagram is kept.
C5_ChallengeAndStay ==
  [][(/\ ev' # ev
      /\ ev'.msg.t = "CH"
      /\ ev'.msg.cookie # generate_cookie.cookie
      /\ ev'.from \in CookieStates)
     => /\ EngineState("srv")' \in CookieStates
        /\ EngineState("srv")' = "WaitingForCookieExchange" =>
             /\ ev'.sent = {HelloVerifyRequest(generate_cookie.cookie)}
             /\ hs'["srv"] = NewHs]_vars

ResponderOrder ==
  { <<"Idle", "WaitingForCookieExchange">>,
    <<"WaitingForCookieExchange", "VerifyingCookie">>,
    <<"VerifyingCookie", "WaitingForCookieExchange">>,
    <<"VerifyingCookie", "Negotiating">>,
    <<"Negotiating", "Completed">> }
  \cup { <<a, "Failed">> : a \in {"Idle", "WaitingForCookieExchange",
                                   "VerifyingCookie", "Negotiating"} }

\* C6: a responder run visits Idle, WaitingForCookieExchange,
\* VerifyingCookie, Negotiating, Completed in that order: Negotiating is
\* entered only after VerifyingCookie accepted a cookie, Completed only from
\* Negotiating, Failed from any state that is not terminal, and nothing
\* leaves Completed or Failed.
C6_ResponderOrder ==
  [][EngineState("srv")' # EngineState("srv") =>
       /\ <<EngineState("srv"), EngineState("srv")'>> \in ResponderOrder
       /\ EngineState("srv")' = "Negotiating" => CookieRoundTrip']_vars

DtlsHandshakePeers == {p \in Peers : Fn(p) \in {"DoHandshakeAsServer", "DoHandshakeAsClient"}}

\* C7: DoHandshakeAsServer and DoHandshakeAsClient return 0 exactly when
\* the handshake reached Completed and -1 whenever a setup, transport or
\* negotiation step of the attempt failed: no failed step is passed over
\* with the attempt carrying on.
C7_ReturnValue ==
  \A p \in DtlsHandshakePeers :
    /\ pc[p] = "done" =>
         /\ ret[p] \in {0, HANDSHAKE_ERROR_STATUS}
         /\ ret[p] = 0 <=> (ssl[p] # Null /\ hs[p].st = "ok")
         /\ failed[p] # {} => ret[p] = HANDSHAKE_ERROR_STATUS
    /\ pc[p] # "done" => failed[p] = {}

\* C8: IsHandshakeComplete returns true exactly when the handshake of the
\* object reached Completed: false on a connection that was set up and has
\* read no datagram yet, false while the handshake runs, false after it failed.
C8_IsHandshakeComplete ==
  \A p \in Peers :
    ssl[p] # Null => IsHandshakeComplete(p) = {Answer(EngineState(p) = "Completed")}

\* C9: key material is exported only from a Completed handshake: an Srtp
\* constructed from a handshake object that has not started or has failed
\* signals an error to its caller and holds no usable session.
C9_ExportOnlyWhenCompleted ==
  \A p \in Peers :
    srtp[p].made /\ srtp[p].at # "Completed" =>
      /\ srtp[p].signal # None
      /\ srtp[p].session # "created"

Range(f) == {f[j] : j \in DOMAIN f}

Run(from, n) == [j \in 1..n |-> from + j - 1]

\* C10: the export asks for 2 * (K + S) bytes under the fixed label and the
\* block is cut as client key, server key, client salt, server salt: the
\* client-write pair is bytes [0,K) then [2K,2K+S), the server-write pair
\* is bytes [K,2K) then [2K+S,2K+2S), and every byte of the block is in
\* exactly one field.
C10_Slicing ==
  \A p \in Peers :
    Exported(srtp[p]) =>
      LET o == srtp[p]
          K == SRTP_AES_KEY_KEY_LEN
          S == SRTP_SALT_LEN
          all == o.client_write_key \o o.server_write_key
      IN /\ o.len = 2 * (K + S)
         /\ o.blk[3] = "EXTRACTOR-dtls_srtp"
         /\ o.client_write_key = Run(0, K) \o Run(2 * K, S)
         /\ o.server_write_key = Run(K, K) \o Run(2 * K + S, S)
         /\ Range(all) = 0..(o.len - 1)
         /\ Len(all) = o.len

C10_Witness ==
  \E p \in Peers : FromCompleted(srtp[p]) /\ srtp[p].session = "created"

----------------------------------------------------------------------------
(* The packet path: Srtp objects and the libsrtp session behind _session   *)

\* packets carry sequence number 1 or one of the 1 + MaxHigh numbers that
\* start a full window above it
MaxHigh == 1

\* how many RTCP packets a context protects
MaxRtcp == 2

\* the values of srtp_err_status_t the packet functions return, by name
srtp_err_status_ok == "srtp_err_status_ok"

srtp_err_status_bad_param == "srtp_err_status_bad_param"

srtp_err_status_auth_fail == "srtp_err_status_auth_fail"

srtp_err_status_replay_fail == "srtp_err_status_replay_fail"

srtp_err_status_replay_old == "srtp_err_status_replay_old"

\* octets_in_rtp_header, octets_in_rtcp_header
RtpHeaderLen == 12

RtcpHeaderLen == 8

\* srtp_crypto_policy_set_rtp_default / _rtcp_default: AES-128 counter mode
\* with an 80 bit HMAC-SHA1 tag; SRTCP adds the E flag and index word
AuthTagLen == 10

RtcpTrailerLen == 4

NoTag == <<>>

\* the synchronisation source of the one media stream
SSRC == 1

\* an RTP packet in a buffer: header fields, payload octets, and the tag
\* once it is protected
RtpPacket(ssrc, seq, body) ==
  [kind |-> "rtp", ssrc |-> ssrc, seq |-> seq, index |-> 0, body |-> body, tag |-> NoTag]

\* an RTCP packet in a buffer; index is the SRTCP index word of the trailer
\* once it is protected
RtcpPacket(ssrc, body) ==
  [kind |-> "rtcp", ssrc |-> ssrc, seq |-> 0, index |-> 0, body |-> body, tag |-> NoTag]

\* the octets a packet takes in its buffer
Octets(b) ==
  (IF b.kind = "rtp" THEN RtpHeaderLen ELSE RtcpHeaderLen) + Len(b.body)
  + (IF b.tag = NoTag THEN 0
     ELSE IF b.kind = "rtp" THEN AuthTagLen ELSE RtcpTrailerLen + AuthTagLen)

\* the cipher: an octet under a key, a source and a packet index
Encrypt(key, b, idx) ==
  [j \in 1..Len(b.body) |-> <<"c", key, b.ssrc, idx, b.body[j]>>]

Decrypt(key, b, idx) ==
  [j \in 1..Len(b.body) |->
     LET c == b.body[j]
     IN IF Len(c) = 5 /\ c[1] = "c" /\ c[2] = key /\ c[3] = b.ssrc /\ c[4] = idx
        THEN c[5] ELSE <<"garbage", c>>]

\* the authentication tag over header, payload and index
AuthTag(key, b, idx) == <<"tag", key, b.kind, b.ssrc, b.seq, idx, b.body>>

\* srtp_stream_clone of the session's template (policy.ssrc.type
\* ssrc_any_inbound / ssrc_any_outbound): fresh replay databases
CloneTemplate(s) ==
  [direction |-> IF s.dir = "ssrc_any_outbound" THEN "dir_srtp_sender" ELSE "dir_srtp_receiver",
   rtp |-> [index |-> 0, seen |-> {}],
   rtcp |-> [window_start |-> 0, seen |-> {}]]

\* srtp_rdbx_estimate_index, below the rollover of the 16 bit sequence number
srtp_rdbx_estimate_index(rdbx, seq) == seq - rdbx.index

\* a check of the replay database that has no lower edge
srtp_rdbx_check_unbounded(rdbx, delta, W) ==
  IF delta > 0 THEN srtp_err_status_ok
  ELSE IF (rdbx.index + delta) \in rdbx.seen THEN srtp_err_status_replay_fail
  ELSE srtp_err_status_ok

\* srtp_rdbx_check on a window of W packets
srtp_rdbx_check(rdbx, delta, W) ==
  IF delta > 0 THEN srtp_err_status_ok
  ELSE IF W - 1 + delta < 0 THEN srtp_err_status_replay_old
  ELSE IF (rdbx.index + delta) \in rdbx.seen THEN srtp_err_status_replay_fail
  ELSE srtp_err_status_ok

\* srtp_rdbx_add_index
srtp_rdbx_add_index(rdbx, delta, W) ==
  IF delta > 0
  THEN [index |-> rdbx.index + delta,
        seen |-> {i \in rdbx.seen : i > rdbx.index + delta - W} \cup {rdbx.index + delta}]
  ELSE [rdbx EXCEPT !.seen = @ \cup {rdbx.index + delta}]

\* srtp_rdb_check: the replay database of SRTCP, a window of 128 indices
srtp_rdb_check(rdb, idx) ==
  IF idx >= rdb.window_start + 128 THEN srtp_err_status_ok
  ELSE IF idx < rdb.window_start THEN srtp_err_status_replay_old
  ELSE IF idx \in rdb.seen THEN srtp_err_status_replay_fail
  ELSE srtp_err_status_ok

\* srtp_rdb_add_index
srtp_rdb_add_index(rdb, idx) ==
  IF idx - rdb.window_start < 128
  THEN [rdb EXCEPT !.seen = @ \cup {idx}]
  ELSE LET ws == rdb.window_start + (idx - rdb.window_start - 127)
       IN [window_start |-> ws, seen |-> {i \in rdb.seen : i >= ws} \cup {idx}]

\* srtp_rdb_increment
srtp_rdb_increment(rdb) == [rdb EXCEPT !.window_start = @ + 1]

\* the stream a call works on, and whether the session's list holds it
StreamOf(s, ssrc) ==
  IF ssrc \in DOMAIN s.streams THEN s.streams[ssrc] ELSE CloneTemplate(s)

WithStream(s, ssrc, st) == [s EXCEPT !.streams = (ssrc :> st) @@ @]

Result(status, s, b, len) == [ret |-> status, s |-> s, b |-> b, len |-> len]

\* srtp_protect(session, buffer, &len)
srtp_protect(s, b, len) ==
  IF len < RtpHeaderLen THEN Result(srtp_err_status_bad_param, s, b, len)
  ELSE
    LET st == [StreamOf(s, b.ssrc) EXCEPT !.direction =
                 IF b.ssrc \in DOMAIN s.streams THEN @ ELSE "dir_srtp_sender"]
        s1 == WithStream(s, b.ssrc, st)
        delta == srtp_rdbx_estimate_index(st.rtp, b.seq)
        status == srtp_rdbx_check(st.rtp, delta, s.window_size)
    IN IF status # srtp_err_status_ok
          /\ (status # srtp_err_status_replay_fail \/ s.allow_repeat_tx = 0)
       THEN Result(status, s1, b, len)
       ELSE LET st2 == [st EXCEPT !.rtp = srtp_rdbx_add_index(@, delta, s.window_size)]
                enc == [b EXCEPT !.body = Encrypt(s.key, b, b.seq)]
                out == [enc EXCEPT !.tag = AuthTag(s.key, enc, b.seq)]
            IN Result(srtp_err_status_ok, WithStream(s, b.ssrc, st2), out, len + AuthTagLen)

\* an unprotect that records the index before the tag is verified
srtp_unprotect_eager(s, b, len) ==
  IF len < RtpHeaderLen THEN Result(srtp_err_status_bad_param, s, b, len)
  ELSE
    LET st == StreamOf(s, b.ssrc)
        delta == srtp_rdbx_estimate_index(st.rtp, b.seq)
        status == srtp_rdbx_check(st.rtp, delta, s.window_size)
        st2 == [st EXCEPT !.rtp = srtp_rdbx_add_index(@, delta, s.window_size)]
        s2 == WithStream(s, b.ssrc, st2)
    IN IF status # srtp_err_status_ok THEN Result(status, s, b, len)
       ELSE IF b.tag = NoTag \/ b.tag # AuthTag(s.key, b, b.seq)
       THEN Result(srtp_err_status_auth_fail, s2, b, len)
       ELSE Result(srtp_err_status_ok, s2, [b EXCEPT !.body = Decrypt(s.key, b, b.seq)],
                   len - AuthTagLen)

\* srtp_unprotect(session, buffer, &len)
srtp_unprotect(s, b, len) ==
  IF len < RtpHeaderLen THEN Result(srtp_err_status_bad_param, s, b, len)
  ELSE
    LET st == StreamOf(s, b.ssrc)
        delta == srtp_rdbx_estimate_index(st.rtp, b.seq)
        status == srtp_rdbx_check(st.rtp, delta, s.window_size)
    IN IF status # srtp_err_status_ok THEN Result(status, s, b, len)
       ELSE IF b.tag = NoTag \/ b.tag # AuthTag(s.key, b, b.seq)
       THEN Result(srtp_err_status_auth_fail, s, b, len)
       ELSE LET st2 == [st EXCEPT !.rtp = srtp_rdbx_add_index(@, delta, s.window_size)]
                out == [b EXCEPT !.body = Decrypt(s.key, b, b.seq)]
            IN Result(srtp_err_status_ok, WithStream(s, b.ssrc, st2), out, len - AuthTagLen)

\* srtp_protect_rtcp(session, buffer, &len)
srtp_protect_rtcp(s, b, len) ==
  IF len < RtcpHeaderLen THEN Result(srtp_err_status_bad_param, s, b, len)
  ELSE
    LET st == [StreamOf(s, b.ssrc) EXCEPT !.direction =
                 IF b.ssrc \in DOMAIN s.streams THEN @ ELSE "dir_srtp_sender"]
        st2 == [st EXCEPT !.rtcp = srtp_rdb_increment(@)]
        idx == st2.rtcp.window_start
        enc == [b EXCEPT !.body = Encrypt(s.key, b, idx), !.index = idx]
        out == [enc EXCEPT !.tag = AuthTag(s.key, enc, idx)]
    IN Result(srtp_err_status_ok, WithStream(s, b.ssrc, st2), out,
              len + RtcpTrailerLen + AuthTagLen)

\* an SRTCP unprotect that keeps its indices in the database of SRTP
srtp_unprotect_rtcp_shared(s, b, len) ==
  IF len < RtcpHeaderLen + RtcpTrailerLen + AuthTagLen
  THEN Result(srtp_err_status_bad_param, s, b, len)
  ELSE
    LET st == StreamOf(s, b.ssrc)
        delta == srtp_rdbx_estimate_index(st.rtp, b.index)
        status == srtp_rdbx_check(st.rtp, delta, s.window_size)
    IN IF status # srtp_err_status_ok THEN Result(status, s, b, len)
       ELSE IF b.tag = NoTag \/ b.tag # AuthTag(s.key, b, b.index)
       THEN Result(srtp_err_status_auth_fail, s, b, len)
       ELSE LET st2 == [st EXCEPT !.rtp = srtp_rdbx_add_index(@, delta, s.window_size)]
                out == [b EXCEPT !.body = Decrypt(s.key, b, b.index)]
            IN Result(srtp_err_status_ok, WithStream(s, b.ssrc, st2), out,
                      len - RtcpTrailerLen - AuthTagLen)

\* srtp_unprotect_rtcp(session, buffer, &len)
srtp_unprotect_rtcp(s, b, len) ==
  IF len < RtcpHeaderLen + RtcpTrailerLen + AuthTagLen
  THEN Result(srtp_err_status_bad_param, s, b, len)
  ELSE
    LET st == StreamOf(s, b.ssrc)
        status == srtp_rdb_check(st.rtcp, b.index)
    IN IF status # srtp_err_status_ok THEN Result(status, s, b, len)
       ELSE IF b.tag = NoTag \/ b.tag # AuthTag(s.key, b, b.index)
       THEN Result(srtp_err_status_auth_fail, s, b, len)
       ELSE LET st2 == [st EXCEPT !.rtcp = srtp_rdb_add_index(@, b.index)]
                out == [b EXCEPT !.body = Decrypt(s.key, b, b.index)]
            IN Result(srtp_err_status_ok, WithStream(s, b.ssrc, st2), out,
                      len - RtcpTrailerLen - AuthTagLen)

----------------------------------------------------------------------------
(* The Srtp objects of the packet path and their four packet functions     *)

Objs == {"A", "B"}

\* the export of a completed handshake
CompletedExport == [res |-> 1, blk |-> <<CRAND, SRAND, ExportLabel, "final">>]

\* Srtp::Srtp(cli::array<System::Byte>^ key, bool isClient): the policy the
\* constructor fills in and hands to srtp_create
SrtpKeyCtor(key, isClient) ==
  [made |-> TRUE, isClient |-> isClient, key |-> key,
   dir |-> IF isClient THEN "ssrc_any_outbound" ELSE "ssrc_any_inbound",
   window_size |-> SRTP_ANTI_REPLAY_WINDOW_SIZE, allow_repeat_tx |-> 0,
   session |-> "created"]

\* srtp_create: a session with the policy's template stream and no stream yet
srtp_create(ctor, isClient, key, dir, window_size, allow_repeat_tx) ==
  [ctor |-> ctor, isClient |-> isClient, key |-> key, dir |-> dir,
   window_size |-> window_size, allow_repeat_tx |-> allow_repeat_tx,
   streams |-> <<>>]

\* policy.key of Srtp(Dtls^, bool): the array chosen, as the exported block
\* and the offsets of the array's bytes in it
KeyRef(o) ==
  [blk |-> o.blk,
   at |-> IF o.key = "client_write_key" THEN o.client_write_key ELSE o.server_write_key]

\* the session of an object made by Srtp(Dtls^, bool) on a completed handshake
SessionOfDtls(isClient) ==
  LET o == SrtpCtor(isClient, "Completed", CompletedExport, TRUE)
  IN srtp_create("Srtp(Dtls^, bool)", isClient, KeyRef(o), o.dir,
                 o.window_size, o.allow_repeat_tx)

\* the session of an object made by Srtp(array<Byte>^, bool)
SessionOfKey(key, isClient) ==
  LET o == SrtpKeyCtor(key, isClient)
  IN srtp_create("Srtp(array<Byte>^, bool)", isClient, o.key, o.dir,
                 o.window_size, o.allow_repeat_tx)

\* the sequence numbers packets carry: 1, and a full window above it
Seqs ==
  {1} \cup
  ((SRTP_ANTI_REPLAY_WINDOW_SIZE + 1)..(SRTP_ANTI_REPLAY_WINDOW_SIZE + 1 + MaxHigh))

Body(n) == << <<"p", n % 256>> >>

PlainRtp == {RtpPacket(SSRC, q, Body(q)) : q \in Seqs}

PlainRtcp == {RtcpPacket(SSRC, Body(0))}

\* a length below either header, as of a truncated datagram
ShortLen == 4

\* the length argument of a call: the packet's octets, or a truncated one
Lengths(b) == {Octets(b), ShortLen}

\* a packet with one payload octet changed on the way
Tamper(b) == [b EXCEPT !.body[1] = <<"flipped", @>>]

\* what can arrive for a receiver: the packets sent, as sent or changed
Received(kind) ==
  LET w == {b \in wire : b.kind = kind}
  IN w \cup {Tamper(b) : b \in w}

Protects == {"ProtectRTP", "ProtectRTCP"}

Unprotects == {"UnprotectRTP", "UnprotectRTCP"}

\* one call of a packet function on object o: the session is *_session, the
\* buffer is changed in place, length is passed by value (the callee's copy is
\* what libsrtp updates), and the status is the return value
PacketCall(fn, o, buffer, length, r) ==
  /\ sess' = [sess EXCEPT ![o] = r.s]
  /\ wire' = IF fn \in Protects /\ r.ret = srtp_err_status_ok
             THEN wire \cup {r.b} ELSE wire
  /\ call' = [fn |-> fn, obj |-> o, arg |-> buffer, ret |-> r.ret,
              buffer |-> r.b, length |-> length,
              prevFailed |-> call.fn \in Unprotects /\ call.ret # srtp_err_status_ok]
  /\ UNCHANGED <<hsVars, srtp, ck, kVars, extVars>>

ProtectRTP(o, buffer, length) ==
  PacketCall("ProtectRTP", o, buffer, length, srtp_protect(sess[o], buffer, length))

UnprotectRTP(o, buffer, length) ==
  PacketCall("UnprotectRTP", o, buffer, length, srtp_unprotect(sess[o], buffer, length))

ProtectRTCP(o, buffer, length) ==
  /\ StreamOf(sess[o], buffer.ssrc).rtcp.window_start < MaxRtcp
  /\ PacketCall("ProtectRTCP", o, buffer, length, srtp_protect_rtcp(sess[o], buffer, length))

UnprotectRTCP(o, buffer, length) ==
  PacketCall("UnprotectRTCP", o, buffer, length, srtp_unprotect_rtcp(sess[o], buffer, length))

\* One direction of a media session: A is the send context of an endpoint
\* that completed its handshake as the DTLS server, B is the receive context
\* of the far end, keyed with the same key and salt
PacketInit ==
  /\ HsInit
  /\ impl = "Dtls"
  /\ srtp = [p \in Peers |-> NoSrtp]
  /\ ck = NoCk
  /\ NewKrx
  /\ NoExt
  /\ sess = [o \in Objs |-> IF o = "A" THEN SessionOfDtls(FALSE)
                            ELSE SessionOfKey(SessionOfDtls(FALSE).key, FALSE)]
  /\ wire = {}
  /\ call = NoCall

PacketNext ==
  \/ \E b \in PlainRtp : \E n \in Lengths(b) : ProtectRTP("A", b, n)
  \/ \E b \in Received("rtp") : \E n \in Lengths(b) : UnprotectRTP("B", b, n)
  \/ \E b \in PlainRtcp : \E n \in Lengths(b) : ProtectRTCP("A", b, n)
  \/ \E b \in Received("rtcp") : \E n \in Lengths(b) : UnprotectRTCP("B", b, n)

PacketSpec == PacketInit /\ [][PacketNext]_vars

----------------------------------------------------------------------------
(* Claims on the packet path *)

\* a packet function was called in this step
Called == call' # call \/ sess' # sess

\* the receive stream of B before the step
RxStream == StreamOf(sess["B"], SSRC)

\* C11: on one receive context with a replay window of 128, a protected
\* packet above everything accepted so far is unprotected successfully, the
\* same packet given again at once fails as a replay, and a packet whose
\* sequence number is below the window fails as too old, which is a reason
\* other than the authentication failure.
C11_ReplayReasons ==
  [][(Called /\ call'.fn = "UnprotectRTP" /\ call'.length = Octets(call'.arg)) =>
       LET b == call'.arg
       IN /\ sess["B"].window_size = 128
          /\ (b \in wire /\ b.seq > RxStream.rtp.index)
               => call'.ret = srtp_err_status_ok
          /\ (call.fn = "UnprotectRTP" /\ call.ret = srtp_err_status_ok /\ call.arg = b)
               => call'.ret = srtp_err_status_replay_fail
          /\ b.seq <= RxStream.rtp.index - 128
               => /\ call'.ret = srtp_err_status_replay_old
                  /\ call'.ret # srtp_err_status_auth_fail]_vars

C11_Witness ==
  /\ call.fn = "UnprotectRTP"
  /\ call.arg \in wire
  /\ call.ret = srtp_err_status_replay_old

\* the packet a protected packet was made from
Original(w) ==
  IF w.kind = "rtp" THEN RtpPacket(w.ssrc, w.seq, Body(w.seq))
  ELSE RtcpPacket(w.ssrc, Body(0))

\* the bytes of the packet are back in the buffer after a successful unprotect
BytesRestored ==
  (call.fn \in Unprotects /\ call.ret = srtp_err_status_ok) =>
    /\ call.buffer.body = Original(call.arg).body
    /\ call.buffer.ssrc = Original(call.arg).ssrc
    /\ call.buffer.seq = Original(call.arg).seq

\* C12: a packet protected on the send context and unprotected on the
\* receive context keyed with the same key and salt comes back as the
\* original bytes and the original length, for RTP and for RTCP.
C12_RoundTrip ==
  (call.fn \in Unprotects /\ call.ret = srtp_err_status_ok) =>
    /\ call.buffer.body = Original(call.arg).body
    /\ call.length = Octets(Original(call.arg))

\* the statuses an unprotect call fails with
UnprotectErrors ==
  {srtp_err_status_bad_param, srtp_err_status_auth_fail,
   srtp_err_status_replay_fail, srtp_err_status_replay_old}

\* an authentic packet the receive context has not yet seen and that is
\* not behind its window
Fresh(w) ==
  /\ w \in wire
  /\ IF w.kind = "rtp"
     THEN /\ w.seq \notin RxStream.rtp.seen
          /\ w.seq > RxStream.rtp.index - SRTP_ANTI_REPLAY_WINDOW_SIZE
     ELSE /\ w.index \notin RxStream.rtcp.seen
          /\ w.index >= RxStream.rtcp.window_start

\* C13: an UnprotectRTP or UnprotectRTCP call that fails (authentication
\* failure, duplicate, too old, structural error) returns an error value and
\* leaves the session with its replay window and index as they were, and a
\* fresh valid packet unprotected right after the failure is accepted.
C13_FailureKeepsSession ==
  [][/\ (Called /\ call'.fn \in Unprotects /\ call'.ret # srtp_err_status_ok) =>
          /\ call'.ret \in UnprotectErrors
          /\ sess' = sess
     /\ (Called /\ call'.fn \in Unprotects /\ call'.prevFailed
           /\ Fresh(call'.arg) /\ call'.length = Octets(call'.arg)) =>
          call'.ret = srtp_err_status_ok]_vars

C13_Witness ==
  /\ call.fn \in Unprotects
  /\ call.prevFailed
  /\ call.ret = srtp_err_status_ok
  /\ RxStream.rtp.seen # {}
  /\ RxStream.rtcp.seen # {}

RtpCalls == {"ProtectRTP", "UnprotectRTP"}
RtcpCalls == {"ProtectRTCP", "UnprotectRTCP"}

\* C14: the replay and sequence state of RTP and of RTCP are independent: a
\* call of an RTP function, accepted or rejected, leaves the RTCP state of
\* the session as it was, and a call of an RTCP function leaves the RTP
\* state as it was.
C14_Independent ==
  [][Called =>
       \A o \in Objs :
         /\ call'.fn \in RtpCalls =>
              \A x \in DOMAIN sess[o].streams :
                sess'[o].streams[x].rtcp = sess[o].streams[x].rtcp
         /\ call'.fn \in RtcpCalls =>
              \A x \in DOMAIN sess[o].streams :
                sess'[o].streams[x].rtp = sess[o].streams[x].rtp
         /\ (call'.fn \in RtpCalls /\ DOMAIN sess[o].streams = {}) =>
              \A x \in DOMAIN sess'[o].streams :
                sess'[o].streams[x].rtcp = CloneTemplate(sess[o]).rtcp
         /\ (call'.fn \in RtcpCalls /\ DOMAIN sess[o].streams = {}) =>
              \A x \in DOMAIN sess'[o].streams :
                sess'[o].streams[x].rtp = CloneTemplate(sess[o]).rtp]_vars

\* both flavours have been accepted and rejected on the receive context
C14_Witness ==
  /\ RxStream.rtp.seen # {}
  /\ RxStream.rtcp.seen # {}
  /\ call.fn = "UnprotectRTCP"
  /\ call.ret = srtp_err_status_replay_fail
  /\ RxStream.rtp.index > SRTP_ANTI_REPLAY_WINDOW_SIZE

\* the send side of the packet path and its two counters
TxStream == StreamOf(sess["A"], SSRC)

\* the statuses with which libsrtp reports a failure of its own
InternalErrors ==
  {"srtp_err_status_fail", "srtp_err_status_alloc_fail", "srtp_err_status_init_fail",
   "srtp_err_status_cipher_fail", "srtp_err_status_algo_fail", "srtp_err_status_key_expired"}

\* C15: over any sequence of ProtectRTP and ProtectRTCP calls on one send
\* context the sequence/index counter of the context never decreases, each
\* successful call advances it, and a call fails only with an internal
\* error of the crypto library.
C15_SendCounter ==
  [][(Called /\ call'.fn \in Protects) =>
       LET rtp0 == TxStream.rtp.index
           rtp1 == StreamOf(sess'["A"], SSRC).rtp.index
           rtcp0 == TxStream.rtcp.window_start
           rtcp1 == StreamOf(sess'["A"], SSRC).rtcp.window_start
       IN /\ rtp1 >= rtp0
          /\ rtcp1 >= rtcp0
          /\ (call'.ret = srtp_err_status_ok /\ call'.fn = "ProtectRTP") => rtp1 > rtp0
          /\ (call'.ret = srtp_err_status_ok /\ call'.fn = "ProtectRTCP") => rtcp1 > rtcp0
          /\ call'.ret # srtp_err_status_ok => call'.ret \in InternalErrors]_vars

----------------------------------------------------------------------------
(* Srtp objects as the class offers them: either constructor with either   *)
(* isClient, and all four packet functions on every object                 *)

\* an object not yet constructed
NoSession == [ctor |-> None]

\* the key arrays a caller can hold: the two halves of a completed export
Keys == {SessionOfDtls(ic).key : ic \in BOOLEAN}

\* Srtp::Srtp(Dtls^ dtlsContext, bool isClient)
NewSrtpOfDtls(o, isClient) ==
  /\ sess[o].ctor = None
  /\ sess' = [sess EXCEPT ![o] = SessionOfDtls(isClient)]
  /\ UNCHANGED <<wire, call, hsVars, srtp, ck, kVars, extVars>>

\* Srtp::Srtp(cli::array<System::Byte>^ key, bool isClient)
NewSrtpOfKey(o, key, isClient) ==
  /\ sess[o].ctor = None
  /\ sess' = [sess EXCEPT ![o] = SessionOfKey(key, isClient)]
  /\ UNCHANGED <<wire, call, hsVars, srtp, ck, kVars, extVars>>

\* the packets of this part: one RTP packet, and the first RTCP packet of
\* each object
UseRtp == {RtpPacket(SSRC, 1, Body(1))}

UseInit ==
  /\ HsInit
  /\ impl = "Dtls"
  /\ srtp = [p \in Peers |-> NoSrtp]
  /\ ck = NoCk
  /\ NewKrx
  /\ NoExt
  /\ sess = [o \in Objs |-> NoSession]
  /\ wire = {}
  /\ call = NoCall

UseNext ==
  \/ \E o \in Objs, ic \in BOOLEAN : NewSrtpOfDtls(o, ic)
  \/ \E o \in Objs, key \in Keys, ic \in BOOLEAN : NewSrtpOfKey(o, key, ic)
  \/ \E o \in Objs, b \in UseRtp :
       sess[o].ctor # None /\ ProtectRTP(o, b, Octets(b))
  \/ \E o \in Objs, b \in {w \in wire : w.kind = "rtp"} :
       sess[o].ctor # None /\ UnprotectRTP(o, b, Octets(b))
  \/ \E o \in Objs, b \in PlainRtcp :
       /\ sess[o].ctor # None
       /\ StreamOf(sess[o], b.ssrc).rtcp.window_start = 0
       /\ ProtectRTCP(o, b, Octets(b))
  \/ \E o \in Objs, b \in {w \in wire : w.kind = "rtcp"} :
       sess[o].ctor # None /\ UnprotectRTCP(o, b, Octets(b))

UseSpec == UseInit /\ [][UseNext]_vars

\* C16: both constructors give the same traffic direction for the same
\* isClient: true makes a context that receives (inbound), false one that
\* sends (outbound).
C16_SameDirection ==
  \A o \in Objs :
    sess[o].ctor # None =>
      sess[o].dir = IF sess[o].isClient THEN "ssrc_any_inbound" ELSE "ssrc_any_outbound"

\* C17: the directional contexts are distinct objects and each serves one
\* direction for its whole life: a protect call is only ever applied to a
\* send context and an unprotect call only to a receive context, so that
\* no context has both applied to it.
C17_OneDirection ==
  (call.fn # None /\ call.ret = srtp_err_status_ok) =>
    /\ call.fn \in Protects => sess[call.obj].dir = "ssrc_any_outbound"
    /\ call.fn \in Unprotects => sess[call.obj].dir = "ssrc_any_inbound"

----------------------------------------------------------------------------
(* The handshake pair under a fair timer and a fair network *)

\* the calls of an entered handshake function go on, OpenSSL's retransmission
\* timer fires when it is armed, and a datagram that sits in a socket is
\* read by the call that waits on it; whether an endpoint's application ever
\* enters its handshake function, and what the network loses, is left open
Fairness ==
  /\ \A p \in Peers : WF_vars(SetupStep(p))
  /\ \A p \in Peers : WF_vars(Timeout(p))
  /\ WF_vars(ListenRecv)
  /\ WF_vars(VerifyCookie)
  /\ WF_vars(AcceptRecv)
  /\ WF_vars(ConnectStart)
  /\ WF_vars(ConnectRecv)

LiveSpec == Init /\ [][Next]_vars /\ Fairness

\* C18: under fairness of the timer and of the network every handshake
\* attempt, in either role, reaches Completed or Failed: a lost flight is
\* retransmitted a bounded number of times and then the attempt fails, and
\* the engine never waits forever, not even a responder to which no
\* initiator ever sends a datagram.
C18_Terminates ==
  \A p \in Peers :
    (pc[p] = "setup") ~> (pc[p] = "done" /\ EngineState(p) \in {"Completed", "Failed"})

\* C19: after a handshake call returned -1 no partial session is exposed:
\* GetSSL hands out no connection object of the failed attempt, from which
\* an Srtp session could be constructed, and IsHandshakeComplete is false.
C19_NoPartialSession ==
  \A p \in Peers :
    (pc[p] = "done" /\ ret[p] = HANDSHAKE_ERROR_STATUS) =>
      /\ GetSSL(p) = Null
      /\ ssl[p] # Null => IsHandshakeComplete(p) = {"false"}

----------------------------------------------------------------------------
(* Shutdown, called from another thread than the one in the handshake call *)

\* DtlsHandshake::Shutdown and Dtls::Shutdown: the context and the connection
\* are freed and their pointers cleared, SSL_free frees the BIO the
\* connection owns, and _k is cleared.  _k->bio keeps its value, the socket
\* stays open (BIO_NOCLOSE) and the handshake call is not told
Shutdown(p) ==
  /\ krx[p] # Null
  /\ freed' = [freed EXCEPT ![p] =
                 @ \cup (IF ctx[p] # Null THEN {"ctx"} ELSE {})
                   \cup (IF ssl[p] # Null THEN {"ssl"} ELSE {})
                   \cup (IF ssl[p] # Null /\ bio[p] # Null THEN {"bio"} ELSE {})]
  /\ ctx' = [ctx EXCEPT ![p] = Null]
  /\ ssl' = [ssl EXCEPT ![p] = Null]
  /\ krx' = [krx EXCEPT ![p] = Null]
  /\ UNCHANGED <<pktVars, extVars, srtp, ck, impl, pc, step, bio, ret, failed, hs, sockErr, ev,
                 toSrv, toCli>>

\* the thread in the handshake call works on what Shutdown released: a setup
\* call reads through the cleared _k, and SSL_accept, SSL_connect and
\* DTLSv1_listen run on the freed connection.  One outcome is a fault; the
\* other, for the blocking calls, is that the call carries on
Fault(p) ==
  /\ krx[p] = Null
  /\ pc[p] \in {"setup", "listen", "verify", "accept", "connect"}
  /\ pc' = [pc EXCEPT ![p] = "fault"]
  /\ UNCHANGED <<pktVars, kVars, extVars, srtp, ck, impl, step, ctx, ssl, bio, ret, failed, hs,
                 sockErr, ev, toSrv, toCli>>

\* the handshake pair with Shutdown: the sockets report no error and no
\* forged datagram arrives
ShutdownNext ==
  \/ \E p \in Peers : StartHandshake(p)
  \/ \E p \in Peers : krx[p] # Null /\ SetupStep(p)
  \/ ListenRecv
  \/ VerifyCookie
  \/ AcceptRecv
  \/ ConnectStart
  \/ ConnectRecv
  \/ \E p \in Peers : Timeout(p)
  \/ Drop
  \/ \E p \in Peers : Shutdown(p)
  \/ \E p \in Peers : Fault(p)

ShutdownSpec == Init /\ [][ShutdownNext]_vars

\* C20: Shutdown cancels a handshake attempt at any point before Completed,
\* also while another thread is blocked in the handshake call: afterwards
\* the context and the connection are released, no thread uses a released
\* object (the handshake of the released connection makes no step and no
\* thread faults on it), and the attempt reads no further datagram.
C20_Cancellation ==
  [][\A p \in Peers :
       krx[p] = Null =>
         /\ ctx[p] = Null /\ ssl[p] = Null
         /\ hs'[p] = hs[p]
         /\ pc'[p] # "fault"
         /\ (p = "srv" /\ pc[p] \in {"listen", "accept"}) => toSrv \subseteq toSrv' \/ ev' = ev
         /\ (p = "cli" /\ pc[p] = "connect") => toCli \subseteq toCli' \/ hs' = hs]_vars

----------------------------------------------------------------------------
(* DtlsManaged: the responder's handshake over two memory BIOs, pumped by   *)
(* the application with Write (a datagram that arrived) and Read (bytes to  *)
(* send)                                                                    *)

\* the octets of a datagram in the model
DatagramLen == 2

\* the datagrams the ServerHello flight (ServerHello, Certificate, key
\* exchange, ServerHelloDone) takes at the MTU Init sets
ServerHelloParts == 2

\* the datagrams of a flight, each one write of the engine to its BIO
Transmissions(d) ==
  [part \in 1..(IF d.t = "SH" THEN ServerHelloParts ELSE 1) |-> [d |-> d, part |-> part]]

Octs(t) == [i \in 1..DatagramLen |-> [t |-> t, i |-> i]]

\* BIO_write on a memory BIO: the bytes are appended to what is there
BIO_write(buf, t) == buf \o Octs(t)

RECURSIVE WriteAll(_, _)
WriteAll(buf, ts) ==
  IF ts = <<>> THEN buf ELSE WriteAll(BIO_write(buf, Head(ts)), Tail(ts))

\* BIO_read on a memory BIO: up to n of the bytes that are there
BIO_read(buf, n) == SubSeq(buf, 1, IF n < Len(buf) THEN n ELSE Len(buf))

BIO_rest(buf, n) == SubSeq(buf, (IF n < Len(buf) THEN n ELSE Len(buf)) + 1, Len(buf))

\* DtlsManaged::Init: the calls in order, each with the value Init returns
\* when the call fails
ManagedSetup ==
  << <<"SSL_CTX_new", -1>>, <<"SSL_CTX_set_cipher_list", -2>>,
     <<"SSL_CTX_set_tlsext_use_srtp", -3>>, <<"SSL_CTX_use_certificate_file", -4>>,
     <<"SSL_CTX_use_PrivateKey_file", -5>>, <<"SSL_CTX_check_private_key", -6>>,
     <<"SSL_new", -7>>, <<"BIO_new(in_bio)", -2>>, <<"BIO_new(out_bio)", -3>> >>

\* the position of a call in Init
CallAt(c) == CHOOSE i \in 1..Len(ManagedSetup) : ManagedSetup[i][1] = c

\* the object after Init whose call number failAt failed (0: none failed)
ManagedInited(g, failAt) ==
  LET reached(c) == failAt = 0 \/ failAt >= CallAt(c)
      made(c) == failAt = 0 \/ failAt > CallAt(c)
      ptr(c, was) == IF made(c) THEN "live" ELSE IF reached(c) THEN Null ELSE was
  IN [g EXCEPT !.ctx = ptr("SSL_CTX_new", @),
               !.ssl = ptr("SSL_new", @),
               !.in_bio = ptr("BIO_new(in_bio)", @),
               !.out_bio = ptr("BIO_new(out_bio)", @),
               !.hs = IF made("SSL_new") THEN NewHs ELSE @,
               !.outb = IF made("BIO_new(out_bio)") THEN <<>> ELSE @,
               !.ret = IF failAt = 0 THEN 0 ELSE ManagedSetup[failAt][2]]

\* SSL_do_handshake of a connection in accept state on the datagram m: the
\* state machine SSL_accept runs
SSL_do_handshake(h, m) ==
  LET first == h.st = "before" /\ m.t = "CH"
      fin == h.st = "wait_cf" /\ m.t = "CF"
      good == fin /\ m.cr = h.cr /\ m.sr = h.sr
  IN [res |-> IF good THEN 1 ELSE -1,
      out |-> IF first THEN <<ServerHello(SRAND)>>
              ELSE IF good THEN <<ServerFinished(h.cr, h.sr)>> ELSE <<>>,
      hs |-> IF first THEN [h EXCEPT !.st = "wait_cf", !.cr = m.cr, !.sr = SRAND,
                                    !.cookie = m.cookie]
             ELSE IF good THEN [h EXCEPT !.st = "ok"]
             ELSE IF fin THEN [h EXCEPT !.st = "err"]
             ELSE h]

\* SSL_is_init_finished
SSL_is_init_finished(h) == h.st = "ok"

\* the object after DtlsManaged::Write(buffer, bufferLength) of a datagram
ManagedWrite(g, buffer) ==
  IF ~SSL_is_init_finished(g.hs)
  THEN LET r == SSL_do_handshake(g.hs, buffer)
           ts == IF Len(r.out) = 0 THEN <<>> ELSE Transmissions(r.out[1])
       IN [g EXCEPT !.hs = r.hs, !.outb = WriteAll(g.outb, ts), !.complete = (r.res = 1),
                    !.written = @ \cup {ts[i] : i \in 1..Len(ts)}]
  ELSE g

\* the object after DtlsManaged::Read(buffer, bufferLength); rd is what the
\* call put in the buffer
ManagedRead(g, bufferLength) ==
  IF Len(g.outb) > 0
  THEN LET read == BIO_read(g.outb, bufferLength)
       IN [g EXCEPT !.rd = read, !.outb = BIO_rest(g.outb, bufferLength),
                    !.sent = @ \cup {read}]
  ELSE [g EXCEPT !.rd = <<>>]

\* Init has run through
Pumping == mg.k # Null /\ mg.ret = 0 /\ mg.out_bio # Null

ManagedInit(failAt) ==
  /\ mg.k # Null
  /\ mg.ctx = Null
  /\ mg' = ManagedInited(mg, failAt)
  /\ UNCHANGED <<pktVars, kVars, hsVars, srtp, ck, app, cert, so, lib>>

\* Write leaves the socket of the direct-socket responder to its caller
Write(buffer) ==
  /\ Pumping
  /\ mg' = ManagedWrite(mg, buffer)
  /\ UNCHANGED <<pktVars, kVars, srtp, ck, impl, pc, step, ctx, ssl, bio, ret, failed,
                 hs, sockErr, ev, toCli, app, cert, so, lib>>

Read(bufferLength) ==
  /\ Pumping
  /\ mg' = ManagedRead(mg, bufferLength)
  /\ UNCHANGED <<pktVars, kVars, hsVars, srtp, ck, app, cert, so, lib>>

\* the handshake datagrams an initiator sends: its ClientHello, its Finished,
\* and a Finished that does not match the transcript
Inbound ==
  {ClientHello(<<>>, CRAND), ClientFinished(CRAND, SRAND), ClientFinished(CRAND, ARAND)}

\* the buffer lengths Read is called with
ReadLens == {1, DatagramLen, ServerHelloParts * DatagramLen}

\* The same inbound datagram reaches both bindings: it is on the socket of
\* the responder in DoHandshakeAsServer, and the application hands it to
\* Write of the DtlsManaged object
Arrive(m) ==
  /\ pc["srv"] = "accept"
  /\ toSrv = {}
  /\ toSrv' = {m}
  /\ Write(m)

PumpInit ==
  /\ HsInit
  /\ impl = "DtlsHandshake"
  /\ srtp = [p \in Peers |-> NoSrtp]
  /\ ck = NoCk
  /\ NoPackets
  /\ NewKrx
  /\ NoExt

PumpNext ==
  \/ StartHandshake("srv")
  \/ SetupStep("srv") /\ pc'["srv"] # "done"
  \/ \E failAt \in 0..Len(ManagedSetup) : ManagedInit(failAt)
  \/ \E m \in Inbound : Arrive(m)
  \/ AcceptRecv
  \/ Timeout("srv")
  \/ \E n \in ReadLens : Read(n)

PumpSpec == PumpInit /\ [][PumpNext]_vars

\* C22: in the buffer-pump binding the datagram boundaries of the outbound
\* flights are kept: a Read call returns bytes of at most one datagram the
\* engine wrote, never two datagrams joined, whatever the order of the
\* Write and Read calls.
C22_Boundaries ==
  \A i, j \in 1..Len(mg.rd) : mg.rd[i].t = mg.rd[j].t

\* the state of the handshake engine of the DtlsManaged object
ManagedEngineState ==
  CASE mg.ssl = Null -> "Idle"
    [] mg.hs.st \in {"before", "wait_cf"} -> "Negotiating"
    [] mg.hs.st = "ok" -> "Completed"
    [] OTHER -> "Failed"

\* the datagrams the direct-socket responder has put on the wire, as octets
SocketDatagrams ==
  UNION {{Octs(Transmissions(d)[part]) : part \in DOMAIN Transmissions(d)} : d \in toCli}

\* both bindings have taken every datagram that arrived and the application
\* has read everything the DtlsManaged engine wrote
Quiescent ==
  /\ pc["srv"] \in {"accept", "done"}
  /\ Pumping
  /\ toSrv = {}
  /\ mg.outb = <<>>

\* C21: the buffer-pump binding and the direct-socket binding drive the same
\* handshake state machine: fed the same inbound handshake datagrams they
\* are in the same state, have sent the same datagrams and reach the same
\* Completed or Failed outcome.
C21_SameEngine ==
  Quiescent =>
    /\ ManagedEngineState = EngineState("srv")
    /\ mg.sent = SocketDatagrams

----------------------------------------------------------------------------
(* The socket the handshake runs on is the application's media socket *)

\* a datagram that is not a DTLS record: STUN, RTP or RTCP
MediaDatagrams == {Msg(t, <<>>, None, None) : t \in {"STUN", "RTP"}}

\* framed as a DTLS handshake datagram
HandshakeFramed(m) == m.t \in {"CH", "HVR", "SH", "CF", "SF"}

\* a media datagram arrives on the socket of p
MediaArrives(p) ==
  /\ \E m \in MediaDatagrams :
       /\ m \notin Inbox(p)
       /\ toSrv' = IF p = "srv" THEN toSrv \cup {m} ELSE toSrv
       /\ toCli' = IF p = "cli" THEN toCli \cup {m} ELSE toCli
  /\ UNCHANGED <<pktVars, kVars, extVars, srtp, ck, impl, pc, step, ctx, ssl, bio, ret,
                 failed, hs, sockErr, ev>>

SharedNext ==
  \/ \E p \in Peers : StartHandshake(p)
  \/ \E p \in Peers : SetupStep(p) /\ pc'[p] # "done"
  \/ ListenRecv
  \/ VerifyCookie
  \/ AcceptRecv
  \/ ConnectStart
  \/ ConnectRecv
  \/ \E p \in Peers : Timeout(p)
  \/ \E p \in Peers : MediaArrives(p)

SharedSpec == Init /\ [][SharedNext]_vars

\* C23: during a direct-socket handshake a datagram on the shared socket
\* that is not framed as a handshake datagram (STUN, RTP, RTCP) is never
\* taken or dropped by the engine: only handshake-framed datagrams leave
\* the socket through the engine, the others stay for the application.
C23_MediaLeftAlone ==
  [][/\ \A m \in toSrv \ toSrv' : HandshakeFramed(m)
     /\ \A m \in toCli \ toCli' : HandshakeFramed(m)]_vars

----------------------------------------------------------------------------
(* Another thread of the application receives on the handshake's socket *)

\* where a handshake function blocks on its socket
Blocking == {"listen", "verify", "accept", "connect"}

\* a receive call of another thread returns the next datagram of p's socket
\* while p's handshake function runs
AppRecv(p) ==
  /\ pc[p] \in Blocking
  /\ \E m \in Inbox(p) :
       /\ toSrv' = IF p = "srv" THEN toSrv \ {m} ELSE toSrv
       /\ toCli' = IF p = "cli" THEN toCli \ {m} ELSE toCli
       /\ app' = [app EXCEPT ![p] = Append(@, m)]
  /\ UNCHANGED <<pktVars, kVars, mg, cert, so, lib, srtp, ck, impl, pc, step, ctx, ssl, bio, ret,
                 failed, hs, sockErr, ev>>

\* the handshake pair on sockets that lose nothing, with the other threads
StealNext ==
  \/ \E p \in Peers : StartHandshake(p)
  \/ \E p \in Peers : SetupStep(p) /\ pc'[p] # "done"
  \/ ListenRecv
  \/ VerifyCookie
  \/ AcceptRecv
  \/ ConnectStart
  \/ ConnectRecv
  \/ \E p \in Peers : Timeout(p)
  \/ \E p \in Peers : AppRecv(p)

StealSpec == Init /\ [][StealNext]_vars

\* the datagrams that leave the socket of p in a step
Leaving(p) == IF p = "srv" THEN toSrv \ toSrv' ELSE toCli \ toCli'

\* C24: while access to the shared socket is serialised every handshake
\* datagram that arrives during the handshake call goes to the engine, once:
\* it leaves the socket only in the blocking call of the endpoint, and a
\* datagram the engine has acted on is off the socket.  When another
\* thread receives on the socket a handshake datagram can go to that thread
\* instead: the engine does not see it, and the handshake can then fail.
C24_SharedSocket ==
  [][\A p \in Peers :
       /\ (app' = app /\ Leaving(p) # {}) =>
            /\ pc[p] \in Blocking /\ CanRead(p)
            /\ Cardinality(Leaving(p)) = 1
            /\ p = "srv" => ev'.kind = "rx" /\ ev'.msg \in Leaving(p)
       /\ (p = "srv" /\ ev' # ev /\ ev'.kind = "rx") => ev'.msg \notin toSrv'
       /\ (p = "cli" /\ hs[p].st \in {"wait_sh", "wait_sf"}
             /\ hs'[p].st \in {"wait_sf", "ok"} /\ hs'[p].st # hs[p].st) =>
            Leaving(p) # {}
       /\ app'[p] # app[p] =>
            /\ hs'[p] = hs[p] /\ ev' = ev
            /\ Leaving(p) = {app'[p][Len(app'[p])]}]_vars

\* a handshake datagram went to the other thread and the handshake failed
C24_Witness ==
  /\ \E i \in DOMAIN app["cli"] : HandshakeFramed(app["cli"][i])
  /\ pc["cli"] = "done"
  /\ ret["cli"] = HANDSHAKE_ERROR_STATUS
  /\ failed["cli"] = {"SSL_connect"}

----------------------------------------------------------------------------
(* Validation of the certificate of the peer *)

\* what the validation of the chain the peer presents comes to
CertChains == {"valid", "failing"}

\* X509_verify_cert: the ok the verify callback is called with
X509_verify_cert(chain) == IF chain = "valid" THEN 1 ELSE 0

\* krx_ssl_verify_peer(ok, ctx)
krx_ssl_verify_peer(ok) == 1

\* the last SSL_CTX_set_verify call of each function
SetVerify(fn) ==
  IF fn = "Init"
  THEN [mode |-> "SSL_VERIFY_PEER", callback |-> "krx_ssl_verify_peer"]
  ELSE [mode |-> "SSL_VERIFY_NONE", callback |-> Null]

\* the engine goes on with the handshake after it has looked at the chain
VerifyPassed(fn, chain) ==
  LET v == SetVerify(fn)
      ok == X509_verify_cert(chain)
      r == IF v.callback = "krx_ssl_verify_peer" THEN krx_ssl_verify_peer(ok) ELSE ok
  IN v.mode = "SSL_VERIFY_NONE" \/ r = 1

\* the engine meets the chain of the peer in the flight that ends with Finished
CarriesCertificate(h, m) == h.st = "wait_cf" /\ m.t = "CF"

\* SSL_accept ends with "certificate verify failed"
PeerRejected(p) ==
  /\ hs' = [hs EXCEPT ![p].st = "err"]
  /\ Returned(p, HANDSHAKE_ERROR_STATUS)
  /\ failed' = [failed EXCEPT ![p] = @ \cup {"certificate verify failed"}]
  /\ toSrv' = {}
  /\ UNCHANGED <<pktVars, kVars, extVars, srtp, ck, impl, step, ctx, ssl, bio, sockErr, ev,
                 toCli>>

\* SSL_accept of the direct-socket responder on the next datagram
CertAcceptRecv ==
  IF /\ \E m \in toSrv : CarriesCertificate(hs["srv"], m)
     /\ ~VerifyPassed(Fn("srv"), cert)
  THEN pc["srv"] = "accept" /\ CanRead("srv") /\ PeerRejected("srv")
  ELSE AcceptRecv

\* DtlsManaged::Write of a datagram of a peer that presents the chain
CertWrite(buffer) ==
  /\ Pumping
  /\ mg' = IF CarriesCertificate(mg.hs, buffer) /\ ~VerifyPassed("Init", cert)
           THEN [mg EXCEPT !.hs.st = "err", !.complete = FALSE]
           ELSE ManagedWrite(mg, buffer)
  /\ UNCHANGED <<pktVars, kVars, srtp, ck, impl, pc, step, ctx, ssl, bio, ret, failed,
                 hs, sockErr, ev, toCli, app, cert, so, lib>>

CertArrive(m) ==
  /\ pc["srv"] = "accept"
  /\ toSrv = {}
  /\ toSrv' = {m}
  /\ CertWrite(m)

CertInit ==
  /\ HsInit
  /\ impl = "DtlsHandshake"
  /\ srtp = [p \in Peers |-> NoSrtp]
  /\ ck = NoCk
  /\ NoPackets
  /\ NewKrx
  /\ mg = NoManaged
  /\ app = [p \in Peers |-> <<>>]
  /\ cert \in CertChains
  /\ so = NoObject
  /\ lib = LibStarted

CertNext ==
  \/ StartHandshake("srv")
  \/ SetupStep("srv") /\ pc'["srv"] # "done"
  \/ \E failAt \in 0..Len(ManagedSetup) : ManagedInit(failAt)
  \/ \E m \in Inbound : CertArrive(m)
  \/ CertAcceptRecv
  \/ Timeout("srv")
  \/ \E n \in ReadLens : Read(n)

CertSpec == CertInit /\ [][CertNext]_vars

\* C25: validation of the certificate of the peer has two modes.  In the
\* strict mode (SSL_VERIFY_PEER) a peer whose chain fails validation is never
\* Completed; in the accept-any mode (SSL_VERIFY_NONE) the chain does not end
\* a handshake.
C25_VerifyModes ==
  /\ (SetVerify("Init").mode = "SSL_VERIFY_PEER" /\ cert = "failing") =>
       ManagedEngineState # "Completed"
  /\ (SetVerify(Fn("srv")).mode = "SSL_VERIFY_PEER" /\ cert = "failing") =>
       EngineState("srv") # "Completed"
  /\ SetVerify(Fn("srv")).mode = "SSL_VERIFY_NONE" =>
       "certificate verify failed" \notin failed["srv"]

----------------------------------------------------------------------------
(* One Srtp object from its construction to its destruction *)

\* the octets srtp_create reads at policy.key: master key and master salt
MasterKeyLen == SRTP_AES_KEY_KEY_LEN + SRTP_SALT_LEN

\* the lengths of the array a caller passes as raw key
KeyLens == {0, MasterKeyLen - 1, MasterKeyLen, MasterKeyLen + 1}

PacketFns == {"ProtectRTP", "UnprotectRTP", "ProtectRTCP", "UnprotectRTCP"}

\* _session after the constructor ran to srtp_create: new srtp_t() holds the
\* session, or a null srtp_t when srtp_create failed
Created(created) == IF created THEN "created" ELSE "empty"

\* Srtp::Srtp(cli::array<System::Byte>^ key, bool isClient) on an array of
\* keyLen octets: &key[0] of an empty array throws; srtp_create reads
\* MasterKeyLen octets at policy.key, past the end of a shorter array; err is
\* printed and nothing else is done with it
SrtpOfKey(keyLen, isClient, created) ==
  IF keyLen = 0
  THEN [NoObject EXCEPT !.state = "threw", !.ctor = "Srtp(array<Byte>^, bool)",
                        !.isClient = isClient, !.signal = "IndexOutOfRangeException"]
  ELSE [NoObject EXCEPT !.state = "made", !.ctor = "Srtp(array<Byte>^, bool)",
                        !.isClient = isClient, !.keyLen = keyLen,
                        !.read = IF keyLen < MasterKeyLen THEN "past the array"
                                 ELSE "the array",
                        !.err = IF created THEN "srtp_err_status_ok" ELSE "srtp_err_status_fail",
                        !.session = Created(created)]

\* Srtp::Srtp(Dtls^ dtlsContext, bool isClient) on a live connection: when
\* the export fails the message is printed and _session stays null
SrtpOfDtls(isClient, res, created) ==
  IF res # 1
  THEN [NoObject EXCEPT !.state = "made", !.ctor = "Srtp(Dtls^, bool)",
                        !.isClient = isClient, !.keyLen = MasterKeyLen]
  ELSE [NoObject EXCEPT !.state = "made", !.ctor = "Srtp(Dtls^, bool)",
                        !.isClient = isClient, !.keyLen = MasterKeyLen,
                        !.read = "the array",
                        !.err = IF created THEN "srtp_err_status_ok" ELSE "srtp_err_status_fail",
                        !.session = Created(created)]

\* how a call that reads through a null pointer ends: a fault that reaches
\* the caller as an exception, or the end of the process
Faults == {"exception", "abort"}

NewOfKey(keyLen, isClient, created) ==
  /\ so.state = "none"
  /\ so' = SrtpOfKey(keyLen, isClient, created)
  /\ UNCHANGED <<hsVars, srtp, ck, pktVars, kVars, mg, app, cert, lib>>

NewOfDtls(isClient, res, created) ==
  /\ so.state = "none"
  /\ so' = SrtpOfDtls(isClient, res, created)
  /\ UNCHANGED <<hsVars, srtp, ck, pktVars, kVars, mg, app, cert, lib>>

\* one of the four packet functions: srtp_...(*_session, p, &length)
PacketFn(fn, how) ==
  /\ so.state = "made"
  /\ IF so.session = "created"
     THEN /\ how = "returned"
          /\ so' = [so EXCEPT !.last = [fn |-> fn, on |-> so.session, how |-> how]]
     ELSE /\ how \in Faults
          /\ so' = [so EXCEPT !.last = [fn |-> fn, on |-> so.session, how |-> how],
                              !.state = IF how = "abort" THEN "dead" ELSE @]
  /\ UNCHANGED <<hsVars, srtp, ck, pktVars, kVars, mg, app, cert, lib>>

\* Srtp::~Srtp(): srtp_dealloc(*_session) unless _session is null
Dispose(how) ==
  /\ so.state = "made"
  /\ CASE so.session = Null ->
            /\ how = "returned"
            /\ so' = [so EXCEPT !.state = "disposed",
                                !.last = [fn |-> "~Srtp", on |-> None, how |-> how]]
       [] so.session = "created" ->
            /\ how = "returned"
            /\ so' = [so EXCEPT !.state = "disposed", !.session = Null,
                                !.last = [fn |-> "~Srtp", on |-> so.session, how |-> how]]
       [] OTHER ->
            /\ how \in Faults
            /\ so' = [so EXCEPT !.state = IF how = "abort" THEN "dead" ELSE "disposed",
                                !.last = [fn |-> "~Srtp", on |-> so.session, how |-> how]]
  /\ UNCHANGED <<hsVars, srtp, ck, pktVars, kVars, mg, app, cert, lib>>

ObjectInit ==
  /\ HsInit
  /\ impl \in {"DtlsHandshake", "Dtls"}
  /\ srtp = [p \in Peers |-> NoSrtp]
  /\ ck = NoCk
  /\ NoPackets
  /\ NewKrx
  /\ NoExt

ObjectNext ==
  \/ \E keyLen \in KeyLens, isClient, created \in BOOLEAN : NewOfKey(keyLen, isClient, created)
  \/ \E isClient, created \in BOOLEAN, res \in {0, 1} : NewOfDtls(isClient, res, created)
  \/ \E fn \in PacketFns, how \in Faults \cup {"returned"} : PacketFn(fn, how)
  \/ \E how \in Faults \cup {"returned"} : Dispose(how)

ObjectSpec == ObjectInit /\ [][ObjectNext]_vars

\* C26: a raw key whose length is not that of master key and salt, and a
\* session that could not be created, are signalled by the constructor: no
\* Srtp object comes out of such a construction.
C26_SignalledAtConstruction ==
  (/\ so.ctor = "Srtp(array<Byte>^, bool)"
   /\ so.keyLen # MasterKeyLen \/ so.err # "srtp_err_status_ok") =>
    so.signal # None

\* C30: the packet functions and the destructor run only on an object whose
\* libsrtp session was created: whatever the constructor met, no later call
\* uses an unset or invalid session.
C30_SessionCreated ==
  so.last.fn # None => so.last.on \in {"created", None} /\ so.last.how = "returned"

----------------------------------------------------------------------------
(* Initialisation of the libraries *)

\* a thread enters a constructor of cls, or its static Initialise function,
\* and tests the flag: if (!_isOpenSSLInitialised), if (!_isLibSrtpInitialised)
TestFlag(t, cls) ==
  /\ lib.th[t].at = "idle"
  /\ lib' = [lib EXCEPT !.th[t] = IF lib.flag[cls] THEN [at |-> "idle", cls |-> None]
                                  ELSE [at |-> "routines", cls |-> cls]]
  /\ UNCHANGED <<hsVars, srtp, ck, pktVars, kVars, mg, app, cert, so>>

\* SSL_library_init() ... OpenSSL_add_all_algorithms(), or srtp_init()
RunRoutines(t) ==
  /\ lib.th[t].at = "routines"
  /\ lib' = [lib EXCEPT !.runs[LibraryOf(lib.th[t].cls)] = @ + 1,
                        !.th[t].at = "set"]
  /\ UNCHANGED <<hsVars, srtp, ck, pktVars, kVars, mg, app, cert, so>>

\* _isOpenSSLInitialised = true, or _isLibSrtpInitialised = true
SetFlag(t) ==
  /\ lib.th[t].at = "set"
  /\ lib' = [lib EXCEPT !.flag[lib.th[t].cls] = TRUE,
                        !.th[t] = [at |-> "idle", cls |-> None]]
  /\ UNCHANGED <<hsVars, srtp, ck, pktVars, kVars, mg, app, cert, so>>

LibInit ==
  /\ HsInit
  /\ impl \in {"DtlsHandshake", "Dtls"}
  /\ srtp = [p \in Peers |-> NoSrtp]
  /\ ck = NoCk
  /\ NoPackets
  /\ NewKrx
  /\ mg = NoManaged
  /\ app = [p \in Peers |-> <<>>]
  /\ cert = "failing"
  /\ so = NoObject
  /\ lib = LibFresh

LibNext ==
  \/ \E t \in Threads, cls \in Classes : TestFlag(t, cls)
  \/ \E t \in Threads : RunRoutines(t)
  \/ \E t \in Threads : SetFlag(t)

LibSpec == LibInit /\ [][LibNext]_vars

\* C27: the initialisation routines of OpenSSL and the initialisation of
\* libsrtp run at most once in a process, however many objects are
\* constructed, however often the Initialise functions are called, and also
\* when constructors run at the same time.
C27_InitOnce ==
  /\ lib.runs["openssl"] <= 1
  /\ lib.runs["libsrtp"] <= 1

----------------------------------------------------------------------------
(* A handshake function called again on the same object *)

\* DoHandshakeAsServer, DoHandshakeAsClient or Dtls::DoHandshake is called on
\* an object whose earlier call has returned: the function starts at its
\* first setup call with _k as the earlier call left it; the calls that failed
\* are those of the new call
CallAgain(p) ==
  /\ pc[p] = "done"
  /\ krx[p] # Null
  /\ pc' = [pc EXCEPT ![p] = "setup"]
  /\ step' = [step EXCEPT ![p] = 1]
  /\ failed' = [failed EXCEPT ![p] = {}]
  /\ UNCHANGED <<pktVars, kVars, extVars, srtp, ck, impl, ctx, ssl, bio, ret, hs,
                 sockErr, ev, toSrv, toCli>>

AgainInit ==
  /\ Init
  /\ impl = "DtlsHandshake"

\* the DtlsHandshake pair in which the responder's function is called again;
\* no setup call of the initiator fails
AgainNext ==
  \/ \E p \in Peers : StartHandshake(p)
  \/ SetupStep("srv")
  \/ SetupStep("cli") /\ pc'["cli"] # "done"
  \/ AcceptRecv
  \/ ConnectStart
  \/ ConnectRecv
  \/ \E p \in Peers : Timeout(p)
  \/ CallAgain("srv")

AgainSpec == AgainInit /\ [][AgainNext]_vars

\* the setup call the function of p makes in this step
Makes(p, c) ==
  /\ pc[p] = "setup"
  /\ SetupCalls(Fn(p))[step[p]] = c
  /\ pc'[p] # pc[p] \/ step'[p] # step[p] \/ failed'[p] # failed[p]
       \/ ctx'[p] # ctx[p] \/ ssl'[p] # ssl[p]

\* C28: a handshake object owns at most one context and one connection: a
\* call on an object that has run a handshake before never assigns _k->ctx
\* or _k->ssl while the object it points at is still allocated.
C28_NoLeak ==
  [][\A p \in Peers :
       /\ Makes(p, "SSL_CTX_new") => ctx[p] = Null
       /\ Makes(p, "SSL_new") => ssl[p] = Null]_vars

\* what a step releases of the object of p
Released(p) == freed'[p] \ freed[p]

\* C29: Shutdown releases the context and the connection once each: what it
\* frees was allocated and not freed before, and it leaves _k->ctx, _k->ssl
\* and _k cleared, so that another Shutdown finds nothing to free and GetSSL
\* returns null.  IsHandshakeComplete after Shutdown, or before any
\* handshake, uses no released or unset object.
C29_ShutdownOnce ==
  [][\A p \in Peers :
       /\ (krx[p] # Null /\ krx'[p] = Null) =>
            /\ Released(p) \cap {"ctx"} = (IF ctx[p] # Null THEN {"ctx"} ELSE {})
            /\ Released(p) \cap {"ssl"} = (IF ssl[p] # Null THEN {"ssl"} ELSE {})
            /\ ctx[p] # Null => "ctx" \notin freed[p]
            /\ ssl[p] # Null => "ssl" \notin freed[p]
       /\ krx[p] = Null => Released(p) = {}
       /\ krx'[p] = Null =>
            /\ ctx'[p] = Null /\ ssl'[p] = Null
            /\ GetSSL(p)' = Null
            /\ "fault" \notin IsHandshakeComplete(p)'
       /\ pc'[p] = "idle" => "fault" \notin IsHandshakeComplete(p)']_vars

====
